---- MODULE Spec2Model ----
(***************************************************************************)
(* Model of the fish-renamer core: the filename grammar and assembler      *)
(* (src/src/constants.py, src/src/filename_assembler.py), the renaming     *)
(* orchestrator with its undo log (src/ui/main_window.py) and the          *)
(* persistent ExifTool session (src/src/exiftool_handler.py).              *)
(*                                                                         *)
(* A Python str is a sequence of one-character strings; None is the        *)
(* value NoneVal, which is no sequence of characters.                      *)
(***************************************************************************)
EXTENDS Integers, Sequences, FiniteSets, TLC

VARIABLES
    \* --- assembler runs (pure functions applied to one evolving name) ---
    cur,            \* the file's current name body (without extension)
    curFrom,        \* the operation that produced cur ("raw" for a dropped name)
    lastOp,         \* the last assembler operation applied
    lastIn,         \* its input name
    lastInFrom,     \* the operation that had produced that input
    lastArgs,       \* its other arguments
    lastOut,        \* its result (NoneVal when the assembler returned None)
    nOps,           \* number of operations applied so far
    \* --- renaming orchestrator (MainWindow) ---
    fs,             \* the directory: file name -> identity of the file's content
    gpsTagged,      \* contents whose embedded metadata carries coordinates
    rename_history, \* MainWindow.rename_history: sequence of <<old, new>>
    processing,     \* MainWindow._processing (busy flag)
    batch,          \* the running batch: mode, files still to process, arguments
    batchNo,        \* number of drops handled so far
    ui,             \* values of the comboboxes
    edit,           \* editing_files, editing_format, fields_to_edit
    faults,         \* number of I/O failures injected so far
    actual,         \* ghost: <<old, new>> of every file the latest batch put under a new name
    lastEvent,      \* ghost: what the last orchestrator step did
    \* --- ExifTool session (ExifToolHandler) ---
    exiftool_path,  \* ExifToolHandler._exiftool_path is set
    process,        \* ExifToolHandler._process: 0 for None, or a process id
    lock,           \* ExifToolHandler._lock: 0 when free, or the holder
    procs,          \* every process started: id -> its state and streams
    th,             \* per thread: position in _execute and its locals
    nCmds           \* number of commands issued so far

asmVars  == <<cur, curFrom, lastOp, lastIn, lastInFrom, lastArgs, lastOut, nOps>>
fsVars   == <<fs, gpsTagged, rename_history, processing, batch, batchNo,
              ui, edit, faults, actual, lastEvent>>
sessVars == <<exiftool_path, process, lock, procs, th, nCmds>>
vars     == <<asmVars, fsVars, sessVars>>

-----------------------------------------------------------------------------
(* Characters and Python string operations *)

Upper  == {"A","B","C","D","E","F","G","H","I","J","K","L","M",
           "N","O","P","Q","R","S","T","U","V","W","X","Y","Z"}
Lower  == {"a","b","c","d","e","f","g","h","i","j","k","l","m",
           "n","o","p","q","r","s","t","u","v","w","x","y","z"}
Digit  == {"0","1","2","3","4","5","6","7","8","9"}
Letter == Upper \cup Lower
Alnum  == Letter \cup Digit

NoneVal == <<"None">>

\* Python truthiness of a str-or-None value.
Truthy(s) == s # NoneVal /\ s # <<>>

EndsWith(s, suf) ==
    /\ Len(s) >= Len(suf)
    /\ SubSeq(s, Len(s) - Len(suf) + 1, Len(s)) = suf

\* s[:-n]
DropLast(s, n) == SubSeq(s, 1, Len(s) - n)

\* s.replace(c, '')
RemoveChar(s, c) == SelectSeq(s, LAMBDA x : x # c)

\* index of the first occurrence of c in s, 0 when there is none
FirstIndex(s, c) ==
    IF \E i \in 1..Len(s) : s[i] = c
    THEN CHOOSE i \in 1..Len(s) : s[i] = c /\ \A j \in 1..(i-1) : s[j] # c
    ELSE 0

RECURSIVE Split(_, _)
\* s.split(c)
Split(s, c) ==
    LET i == FirstIndex(s, c) IN
    IF i = 0 THEN <<s>>
    ELSE <<SubSeq(s, 1, i - 1)>> \o Split(SubSeq(s, i + 1, Len(s)), c)

RECURSIVE Join(_, _)
\* c.join(parts)
Join(parts, c) ==
    IF Len(parts) = 0 THEN <<>>
    ELSE IF Len(parts) = 1 THEN parts[1]
    ELSE parts[1] \o <<c>> \o Join(Tail(parts), c)

US == "_"

AllIn(s, S)      == \A i \in 1..Len(s) : s[i] \in S
Plus(s, S)       == Len(s) >= 1 /\ AllIn(s, S)
Exactly(s, n, S) == Len(s) = n /\ AllIn(s, S)

-----------------------------------------------------------------------------
(* Field grammars of the filename patterns (constants.py) *)

\* [A-Za-z]{5}
IsAuthorCode(s) == Exactly(s, 5, Letter)

\* [A-Z]{3}-[A-Za-z]+-[A-Z0-9]{3}
IsSiteString(s) ==
    /\ Len(s) >= 9
    /\ AllIn(SubSeq(s, 1, 3), Upper)
    /\ s[4] = "-"
    /\ Plus(SubSeq(s, 5, Len(s) - 4), Letter)
    /\ s[Len(s) - 3] = "-"
    /\ AllIn(SubSeq(s, Len(s) - 2, Len(s)), Upper \cup Digit)

\* \d{4}-\d{2}-\d{2}
IsDate(s) ==
    /\ Len(s) = 10
    /\ AllIn(SubSeq(s, 1, 4), Digit) /\ s[5] = "-"
    /\ AllIn(SubSeq(s, 6, 7), Digit) /\ s[8] = "-"
    /\ AllIn(SubSeq(s, 9, 10), Digit)

\* \d{2}-\d{2}-\d{2}
IsTime(s) ==
    /\ Len(s) = 8
    /\ AllIn(SubSeq(s, 1, 2), Digit) /\ s[3] = "-"
    /\ AllIn(SubSeq(s, 4, 5), Digit) /\ s[6] = "-"
    /\ AllIn(SubSeq(s, 7, 8), Digit)

\* [A-Za-z]+
IsActivity(s) == Plus(s, Letter)

\* [A-Z]-[A-Za-z0-9]+
IsCamera(s) ==
    /\ Len(s) >= 3
    /\ s[1] \in Upper /\ s[2] = "-"
    /\ AllIn(SubSeq(s, 3, Len(s)), Alnum)

\* 0?\-?[A-Za-z]*
IsFamily(s) ==
    LET a == IF Len(s) >= 1 /\ s[1] = "0" THEN Tail(s) ELSE s
        b == IF Len(a) >= 1 /\ a[1] = "-" THEN Tail(a) ELSE a
    IN  AllIn(b, Letter)

IsGenus(s)      == Plus(s, Letter)                 \* [A-Za-z]+
IsSpecies(s)    == Plus(s, Lower)                  \* [a-z]+
IsTag(s)        == Exactly(s, 1, Upper)            \* [A-Z]
IsConfidence(s) == Exactly(s, 2, Lower)            \* [a-z]{2}
IsPhase(s)      == Plus(s, Letter)                 \* [A-Za-z]+
IsColour(s)     == Plus(s, Letter \cup {"-"})      \* [A-Za-z\-]+
IsBehaviour(s)  == Plus(s, Letter \cup {"-"})      \* [A-Za-z\-]+

PATTERN_BASIC_FILENAME_Unanchored(filename) ==
    \E i \in 1..Len(filename) :
        LET p == Split(SubSeq(filename, i, Len(filename)), US) IN
        /\ Len(p) \in {7, 8}
        /\ IsAuthorCode(p[1]) /\ IsSiteString(p[2]) /\ IsDate(p[3]) /\ IsTime(p[4])
        /\ IsActivity(p[5]) /\ IsCamera(p[6]) /\ Plus(p[7], Alnum)
        /\ (Len(p) = 8 => p[8] = <<"G">>)

\* PATTERN_BASIC_FILENAME.match(filename) is not None.  No field class holds
\* '_', so the fields are the '_'-separated parts; the pattern ends in
\* [A-Za-z0-9]+(?:_G)?$ : an optional _G and nothing else after the original.
PATTERN_BASIC_FILENAME(filename) ==
    LET p == Split(filename, US) IN
    /\ Len(p) \in {7, 8}
    /\ IsAuthorCode(p[1])
    /\ IsSiteString(p[2])
    /\ IsDate(p[3])
    /\ IsTime(p[4])
    /\ IsActivity(p[5])
    /\ IsCamera(p[6])
    /\ Plus(p[7], Alnum)
    /\ (Len(p) = 8 => p[8] = <<"G">>)

\* PATTERN_IDENTITY_FILENAME.match(filename): the 14 groups, or NoneVal.
\* Group 14 is (.*?) before (?:_G)?$ : the rest of the name, without a
\* final _G when there is one.
PATTERN_IDENTITY_FILENAME(filename) ==
    LET p == Split(filename, US)
        n == Len(p)
        last == IF n >= 16 /\ p[n] = <<"G">> THEN n - 1 ELSE n
    IN  IF /\ n >= 15
           /\ IsFamily(p[1]) /\ IsGenus(p[2]) /\ IsSpecies(p[3]) /\ IsTag(p[4])
           /\ IsConfidence(p[5]) /\ IsPhase(p[6]) /\ IsColour(p[7])
           /\ IsBehaviour(p[8]) /\ IsAuthorCode(p[9]) /\ IsSiteString(p[10])
           /\ IsDate(p[11]) /\ IsTime(p[12]) /\ IsActivity(p[13])
           /\ IsCamera(p[14])
        THEN <<p[1], p[2], p[3]>> \o SubSeq(p, 5, 14)
                 \o <<Join(SubSeq(p, 15, last), US)>>
        ELSE NoneVal

\* _\d{4}-\d{2}-\d{2}_\d{2}-\d{2}-\d{2}_ occurs in s at index q
DateTimeAt(s, q) ==
    /\ q + 20 <= Len(s)
    /\ s[q] = US
    /\ IsDate(SubSeq(s, q + 1, q + 10))
    /\ s[q + 11] = US
    /\ IsTime(SubSeq(s, q + 12, q + 19))
    /\ s[q + 20] = US

\* [A-Za-z]{5}_.*?_<date>_<time>_.* matches s from index i on
BasenameAt(s, i) ==
    /\ i + 5 <= Len(s)
    /\ AllIn(SubSeq(s, i, i + 4), Letter)
    /\ s[i + 5] = US
    /\ \E q \in (i + 6)..Len(s) : DateTimeAt(s, q)

\* PATTERN_BASIC_BASENAME.search(s).group(1): the leftmost match, which runs
\* to the end of s; NoneVal when there is no match.
PATTERN_BASIC_BASENAME(s) ==
    IF \E i \in 1..Len(s) : BasenameAt(s, i)
    THEN LET i == CHOOSE i \in 1..Len(s) :
                    BasenameAt(s, i) /\ \A j \in 1..(i - 1) : ~BasenameAt(s, j)
         IN  SubSeq(s, i, Len(s))
    ELSE NoneVal

-----------------------------------------------------------------------------
(* Lookup tables of the DataManager (loaded from CSV/JSON) *)

JDIVE          == <<"J","D","I","V","E">>
IDN_Bangka_BTI == <<"I","D","N","-","B","a","n","g","k","a","-","B","T","I">>
Date1          == <<"2","0","2","4","-","0","1","-","1","5","_","1","4","-","3","0","-","4","5">>
diving         == <<"d","i","v","i","n","g">>
S_A7IV         == <<"S","-","A","7","I","V">>
DSC0001        == <<"D","S","C","0","0","0","1">>
DSC_0001       == <<"D","S","C","_","0","0","0","1">>
Pomacentridae  == <<"P","o","m","a","c","e","n","t","r","i","d","a","e">>
Amphiprion     == <<"A","m","p","h","i","p","r","i","o","n">>
clarkii        == <<"c","l","a","r","k","i","i">>
ocellaris      == <<"o","c","e","l","l","a","r","i","s">>
ok             == <<"o","k">>
ad             == <<"a","d">>
ty             == <<"t","y">>
zz             == <<"z","z">>

\* users_df: 'Full name' -> 'Namecode'
users_df == [n \in {"Jane Diver"} |-> JDIVE]

\* divesites_df: (Area, Site) -> 'Site string'
divesites_df == [a \in {<<"Indonesia", "Bangka">>} |-> IDN_Bangka_BTI]

\* DataManager.get_user_code: the code, or '' when the name is unknown
get_user_code(full_name) ==
    IF full_name \in DOMAIN users_df THEN users_df[full_name] ELSE <<>>

\* DataManager.get_divesite_string: the site string, or '' when unknown
get_divesite_string(area, site) ==
    IF <<area, site>> \in DOMAIN divesites_df THEN divesites_df[<<area, site>>]
    ELSE <<>>

-----------------------------------------------------------------------------
(* FilenameAssembler *)

regex_match_basic(filename)    == PATTERN_BASIC_FILENAME(filename)
regex_match_identity(filename) == PATTERN_IDENTITY_FILENAME(filename)

\* FilenameAssembler.assemble_basic_filename
assemble_basic_filename(original_filename, file_date, author_name, site_tuple, activity, camera) ==
    IF regex_match_basic(original_filename)
           \/ regex_match_identity(original_filename) # NoneVal
    THEN NoneVal
    ELSE IF author_name = "" \/ Len(site_tuple) # 2
    THEN NoneVal
    ELSE LET author_code == get_user_code(author_name)
             site_string == get_divesite_string(site_tuple[1], site_tuple[2])
             sanitized_original == RemoveChar(original_filename, US)
         IN  IF ~(/\ Truthy(author_code) /\ Truthy(site_string)
                  /\ Truthy(file_date) /\ Truthy(activity) /\ Truthy(camera))
             THEN NoneVal
             ELSE author_code \o <<US>> \o site_string \o <<US>> \o file_date
                    \o <<US>> \o activity \o <<US>> \o camera \o <<US>>
                    \o sanitized_original \o <<US, "N">>

assemble_identity_filename_NoStageCheck(existing_filename, family, genus, species, confidence, phase, colour, behaviour) ==
    LET base_name == PATTERN_BASIC_BASENAME(existing_filename) IN
    IF base_name = NoneVal \/ ~Truthy(behaviour) THEN NoneVal
    ELSE family \o <<US>> \o genus \o <<US>> \o species \o <<US, "B", US>>
           \o confidence \o <<US>> \o phase \o <<US>> \o colour \o <<US>>
           \o behaviour \o <<US>> \o base_name \o <<US, "N">>

\* FilenameAssembler.assemble_identity_filename
assemble_identity_filename(existing_filename, family, genus, species, confidence, phase, colour, behaviour) ==
    IF regex_match_identity(existing_filename) # NoneVal
    THEN NoneVal
    ELSE IF ~regex_match_basic(existing_filename)
    THEN NoneVal
    ELSE LET base_name == PATTERN_BASIC_BASENAME(existing_filename) IN
         IF base_name = NoneVal
         THEN NoneVal
         ELSE IF ~(/\ Truthy(family) /\ Truthy(genus) /\ Truthy(species)
                   /\ Truthy(confidence) /\ Truthy(phase) /\ Truthy(colour)
                   /\ Truthy(behaviour) /\ Truthy(base_name))
         THEN NoneVal
         ELSE family \o <<US>> \o genus \o <<US>> \o species \o <<US, "B", US>>
                \o confidence \o <<US>> \o phase \o <<US>> \o colour \o <<US>>
                \o behaviour \o <<US>> \o base_name \o <<US, "N">>

construct_gps_filename_AlwaysAppend(filename_without_ext) ==
    IF EndsWith(filename_without_ext, <<US, "N">>)
    THEN DropLast(filename_without_ext, 2) \o <<US, "G">>
    ELSE filename_without_ext \o <<US, "G">>

\* MainWindow._construct_gps_filename
construct_gps_filename(filename_without_ext) ==
    IF EndsWith(filename_without_ext, <<US, "G">>)
    THEN filename_without_ext
    ELSE IF EndsWith(filename_without_ext, <<US, "N">>)
    THEN DropLast(filename_without_ext, 2) \o <<US, "G">>
    ELSE IF regex_match_identity(filename_without_ext) # NoneVal
    THEN filename_without_ext \o <<US, "G">>
    ELSE IF regex_match_basic(filename_without_ext)
    THEN filename_without_ext \o <<US, "G">>
    ELSE NoneVal

-----------------------------------------------------------------------------
(* Assembler runs: the stage functions applied, one after another, to the    *)
(* name of one file, as the Basic, Identify and Meta drops do.               *)

MaxOps == 3

LegacyBasic ==
    JDIVE \o <<US>> \o IDN_Bangka_BTI \o <<US>> \o Date1 \o <<US>> \o diving
      \o <<US>> \o S_A7IV \o <<US>> \o DSC0001

\* names a dropped file can carry: camera originals, and names encoded before
\* the marker was introduced (no marker) or already geotagged
RawNames == {DSC0001, DSC_0001, LegacyBasic, LegacyBasic \o <<US, "G">>}

NoArgs ==
    [file_date |-> <<>>, author_name |-> "", site_tuple |-> <<>>,
     activity |-> <<>>, camera |-> <<>>,
     family |-> <<>>, genus |-> <<>>, species |-> <<>>, confidence |-> <<>>,
     phase |-> <<>>, colour |-> <<>>, behaviour |-> <<>>]

FsIdle ==
    /\ fs = <<>> /\ gpsTagged = {} /\ rename_history = <<>>
    /\ processing = FALSE /\ batch = <<>> /\ batchNo = 0
    /\ ui = <<>> /\ edit = <<>> /\ faults = 0
    /\ actual = <<>> /\ lastEvent = "none"

SessIdle ==
    /\ exiftool_path = FALSE /\ process = 0 /\ lock = 0 /\ procs = <<>>
    /\ th = <<>> /\ nCmds = 0

InitAsm ==
    /\ cur \in RawNames
    /\ curFrom = "raw"
    /\ lastOp = "none" /\ lastIn = NoneVal /\ lastInFrom = "none"
    /\ lastArgs = NoArgs /\ lastOut = NoneVal /\ nOps = 0
    /\ FsIdle /\ SessIdle

\* what an operation leaves behind: the file takes the new name when the
\* assembler returned one and keeps its name otherwise
Applied(op, args, out) ==
    /\ lastOp' = op /\ lastIn' = cur /\ lastInFrom' = curFrom
    /\ lastArgs' = args /\ lastOut' = out
    /\ cur' = IF out = NoneVal THEN cur ELSE out
    /\ curFrom' = IF out = NoneVal THEN curFrom ELSE op
    /\ nOps' = nOps + 1
    /\ UNCHANGED <<fsVars, sessVars>>

\* Basic drop: the name computed by _rename_single_file_basic
ApplyBasic ==
    \E file_date \in {Date1, <<>>},
       author_name \in {"Jane Diver", "Nobody"} :
        LET site_tuple == <<"Indonesia", "Bangka">>
            out == assemble_basic_filename(cur, file_date, author_name,
                                           site_tuple, diving, S_A7IV)
        IN  /\ nOps < MaxOps
            /\ Applied("basic",
                       [NoArgs EXCEPT !.file_date = file_date,
                                      !.author_name = author_name,
                                      !.site_tuple = site_tuple,
                                      !.activity = diving, !.camera = S_A7IV],
                       out)

\* Identify drop: the name computed by _rename_single_file_identity
ApplyIdentity ==
    \E species \in {clarkii, ocellaris}, behaviour \in {zz, <<>>} :
        LET out == assemble_identity_filename(cur, Pomacentridae, Amphiprion,
                                              species, ok, ad, ty, behaviour)
        IN  /\ nOps < MaxOps
            /\ Applied("identity",
                       [NoArgs EXCEPT !.family = Pomacentridae,
                                      !.genus = Amphiprion, !.species = species,
                                      !.confidence = ok, !.phase = ad,
                                      !.colour = ty, !.behaviour = behaviour],
                       out)

\* Meta drop: the name computed by _generate_previews_exif
ApplyGps ==
    /\ nOps < MaxOps
    /\ Applied("gps", NoArgs, construct_gps_filename(cur))

NextAsm == ApplyBasic \/ ApplyIdentity \/ ApplyGps

SpecAsm == InitAsm /\ [][NextAsm]_vars

-----------------------------------------------------------------------------
(* Claims about the assembler *)

\* the name without its trailing GPS marker, when it has one
WithoutMarker(name) ==
    IF EndsWith(name, <<US, "N">>) \/ EndsWith(name, <<US, "G">>)
    THEN DropLast(name, 2) ELSE name

\* C1: toBasic returns none for every name that is already in the Basic or
\* Identified stage, in particular for every name a successful toBasic (or
\* toIdentified) returned, so that no name is encoded twice.
C1_StageIdempotence ==
    (/\ lastOp = "basic"
     /\ \/ lastInFrom \in {"basic", "identity"}
        \/ regex_match_basic(lastIn)
        \/ regex_match_identity(lastIn) # NoneVal)
    => lastOut = NoneVal

\* C2: for every Basic-stage name b, in particular every name toBasic
\* returned, and non-empty taxonomy and attributes, toIdentified returns
\* family_genus_species_B_confidence_phase_colour_behaviour_ followed by the
\* Basic payload of b, ending in exactly one GPS marker.
C2_IdentityOfBasic ==
    (/\ lastOp = "identity"
     /\ (lastInFrom = "basic" \/ regex_match_basic(lastIn))
     /\ Truthy(lastArgs.species) /\ Truthy(lastArgs.behaviour))
    => \E marker \in {"N", "G"} :
          lastOut = lastArgs.family \o <<US>> \o lastArgs.genus \o <<US>>
                      \o lastArgs.species \o <<US, "B", US>>
                      \o lastArgs.confidence \o <<US>> \o lastArgs.phase
                      \o <<US>> \o lastArgs.colour \o <<US>>
                      \o lastArgs.behaviour \o <<US>>
                      \o WithoutMarker(lastIn) \o <<US, marker>>

\* C3: round trip: matchBasic applied to the name toBasic returned for a
\* field tuple satisfying the field grammars matches, and its fields are the
\* tuple's values, the original name being the input without its '_'.
C3_RoundTrip ==
    (/\ lastOp = "basic" /\ lastOut # NoneVal
     /\ Plus(RemoveChar(lastIn, US), Alnum))
    => /\ regex_match_basic(lastOut)
       /\ SubSeq(Split(lastOut, US), 1, 7) =
            <<get_user_code(lastArgs.author_name),
              get_divesite_string(lastArgs.site_tuple[1], lastArgs.site_tuple[2])>>
              \o Split(lastArgs.file_date, US)
              \o <<lastArgs.activity, lastArgs.camera, RemoveChar(lastIn, US)>>

-----------------------------------------------------------------------------
(* The directory and the os / shutil calls of the orchestrator *)

Ext          == <<".","j","p","g">>
BackupSuffix == <<".","b","a","c","k","u","p">>

\* index of the last occurrence of c in s, 0 when there is none
LastIndex(s, c) ==
    IF \E i \in 1..Len(s) : s[i] = c
    THEN CHOOSE i \in 1..Len(s) : s[i] = c /\ \A j \in (i+1)..Len(s) : s[j] # c
    ELSE 0

\* os.path.splitext(name): <<root, ext>>
splitext(name) ==
    LET i == LastIndex(name, ".") IN
    IF i > 1 THEN <<SubSeq(name, 1, i - 1), SubSeq(name, i, Len(name))>>
    ELSE <<name, <<>>>>

\* os.path.exists
exists(f, path) == path \in DOMAIN f

Put(f, path, c) == [x \in DOMAIN f \cup {path} |-> IF x = path THEN c ELSE f[x]]
Del(f, path)    == [x \in DOMAIN f \ {path} |-> f[x]]

\* os.rename / shutil.move within one directory: an existing target is replaced
os_rename(f, a, b) == Put(Del(f, a), b, f[a])
\* shutil.copy2
copy2(f, a, b) == Put(f, b, f[a])
\* os.remove
os_remove(f, a) == Del(f, a)

\* app_utils.validate_safe_path for a file name joined to its own directory
validate_safe_path(name) == \A i \in 1..Len(name) : name[i] # "/"

Min(a, b) == IF a <= b THEN a ELSE b

\* s.count(c)
Count(s, c) == Len(SelectSeq(s, LAMBDA x : x = c))

RECURSIVE strip(_)
\* s.strip()
strip(s) ==
    IF s # <<>> /\ Head(s) = " " THEN strip(Tail(s))
    ELSE IF s # <<>> /\ s[Len(s)] = " " THEN strip(DropLast(s, 1))
    ELSE s

RECURSIVE replace(_, _, _, _)
\* s.replace(old, new, count) for single characters; count = -1: all
replace(s, old, new, count) ==
    IF s = <<>> \/ count = 0 THEN s
    ELSE IF Head(s) = old
    THEN <<new>> \o replace(Tail(s), old, new, IF count > 0 THEN count - 1 ELSE count)
    ELSE <<Head(s)>> \o replace(Tail(s), old, new, count)

\* ExifToolHandler._format_exif_datetime
format_exif_datetime(datetime_str) ==
    LET parts == <<SubSeq(datetime_str, 1, LastIndex(datetime_str, "-") - 1),
                   SubSeq(datetime_str, LastIndex(datetime_str, "-") + 1,
                          Len(datetime_str))>>
        s == IF Count(datetime_str, "+") > 0
             THEN strip(Split(datetime_str, "+")[1])
             ELSE IF Count(datetime_str, "-") > 2 /\ Count(parts[2], ":") > 0
             THEN strip(parts[1])
             ELSE datetime_str
    IN  replace(replace(replace(s, ":", "-", 2), " ", "_", -1), ":", "-", -1)

\* timestamps as ExifTool prints them: plain, with a timezone east or west of
\* Greenwich, and the value of an unset clock
Stamp1  == <<"2","0","2","4",":","0","1",":","1","5"," ","1","4",":","3","0",":","4","5">>
Stamp2  == <<"2","0","2","3",":","1","2",":","3","1"," ","2","3",":","5","9",":","5","9">>
East    == <<"+","0","8",":","0","0">>
West    == <<"-","0","8",":","0","0">>
Unset   == <<"0","0","0","0",":","0","0",":","0","0"," ","0","0",":","0","0",":","0","0">>
Stamps  == {st \o tz : st \in {Stamp1, Stamp2}, tz \in {<<>>, East, West}}
               \cup {Unset}

\* the date tags embedded in each file, by the number of its content:
\* DateTimeOriginal (36867), CreateDate, and ModifyDate, the tag 306 that
\* Pillow calls DateTime. File 2 was saved again by an editor: it has lost
\* DateTimeOriginal and its ModifyDate is later than its CreateDate
exif_tags(c) ==
    IF c = 2
    THEN [DateTimeOriginal |-> NoneVal, CreateDate |-> Stamp2, ModifyDate |-> Stamp1]
    ELSE [DateTimeOriginal |-> Stamp1, CreateDate |-> Stamp1, ModifyDate |-> Stamp1]

\* ExifHandler._format_datetime
format_datetime(datetime_str) ==
    replace(replace(replace(datetime_str, ":", "-", 2), " ", "_", -1), ":", "-", -1)

\* ExifHandler.get_creation_date_str: DateTimeOriginal, else DateTime, read
\* from the file itself; '' when unreadable
get_creation_date_str(f, path) ==
    IF ~exists(f, path) THEN <<>>
    ELSE LET tags == exif_tags(f[path]) IN
         IF Truthy(tags.DateTimeOriginal) THEN format_datetime(tags.DateTimeOriginal)
         ELSE IF Truthy(tags.ModifyDate) THEN format_datetime(tags.ModifyDate)
         ELSE <<>>

\* date_map.get(file_path, "") for a file of an answered
\* batch_read_creation_dates: DateTimeOriginal, else CreateDate, else
\* ModifyDate, as _read_creation_dates_batch formats it
exiftool_creation_date(f, path) ==
    IF ~exists(f, path) THEN <<>>
    ELSE LET tags == exif_tags(f[path])
             date_str == IF Truthy(tags.DateTimeOriginal) THEN tags.DateTimeOriginal
                         ELSE IF Truthy(tags.CreateDate) THEN tags.CreateDate
                         ELSE tags.ModifyDate
         IN  IF Truthy(date_str) /\ date_str # Unset /\ Truthy(format_exif_datetime(date_str))
             THEN format_exif_datetime(date_str) ELSE <<>>

\* the except block of the write transaction (restore from the backup)
RestoreFromBackup(f, file_path, backup_path) ==
    IF exists(f, backup_path)
    THEN IF ~exists(f, file_path)
         THEN os_rename(f, backup_path, file_path)
         ELSE os_remove(f, backup_path)
    ELSE f

\* the write transaction: copy to backup, rename, delete backup, append to the
\* undo log; failAt names the call that raises ("none": no call raises).
\* moved: os.rename was carried out
WriteTransaction(f, hist, file_path, new_path, failAt) ==
    LET backup_path == file_path \o BackupSuffix
        f1 == copy2(f, file_path, backup_path)
        f2 == os_rename(f1, file_path, new_path)
        f3 == os_remove(f2, backup_path)
    IN  IF failAt = "copy"
        THEN [fs |-> RestoreFromBackup(f, file_path, backup_path),
              hist |-> hist, ok |-> FALSE, moved |-> FALSE, event |-> "failed"]
        ELSE IF failAt = "rename"
        THEN [fs |-> RestoreFromBackup(f1, file_path, backup_path),
              hist |-> hist, ok |-> FALSE, moved |-> FALSE, event |-> "failed"]
        ELSE IF failAt = "remove"
        THEN [fs |-> RestoreFromBackup(f2, file_path, backup_path),
              hist |-> hist, ok |-> FALSE, moved |-> TRUE, event |-> "failed"]
        ELSE [fs |-> f3, hist |-> Append(hist, <<file_path, new_path>>),
              ok |-> TRUE, moved |-> TRUE, event |-> "renamed"]

Skipped(f, hist, why) ==
    [fs |-> f, hist |-> hist, ok |-> FALSE, moved |-> FALSE, event |-> why]

\* the rename without the check that the target is free
RenameSingle_NoExistsCheck(f, hist, file_path, new_filename, failAt) ==
    IF ~Truthy(new_filename) THEN Skipped(f, hist, "skip_none")
    ELSE IF ~validate_safe_path(new_filename) THEN Skipped(f, hist, "skip_unsafe")
    ELSE IF ~exists(f, file_path) THEN Skipped(f, hist, "failed")
    ELSE WriteTransaction(f, hist, file_path, new_filename, failAt)

\* what _rename_single_file_basic, _rename_single_file_identity and
\* _edit_single_file do once the new name is assembled: the directory, the
\* undo log, the return value and what happened
RenameSingle(f, hist, file_path, new_filename, failAt) ==
    IF ~Truthy(new_filename) THEN Skipped(f, hist, "skip_none")
    ELSE IF ~validate_safe_path(new_filename) THEN Skipped(f, hist, "skip_unsafe")
    ELSE IF exists(f, new_filename) THEN Skipped(f, hist, "skip_exists")
    ELSE IF ~exists(f, file_path) THEN Skipped(f, hist, "failed")
    ELSE WriteTransaction(f, hist, file_path, new_filename, failAt)

\* name + ext, None staying None
WithExt(body, ext) == IF Truthy(body) THEN body \o ext ELSE NoneVal

-----------------------------------------------------------------------------
(* DataManager tables and lookups used by the window *)

cf      == <<"c","f">>

DEFAULT_FAMILY     == <<"0","-","F","a","m">>
DEFAULT_GENUS      == <<"g","e","n","u","s">>
DEFAULT_SPECIES    == <<"s","p","e","c">>
DEFAULT_CONFIDENCE == "uncertain"
DEFAULT_PHASE      == "adult"
DEFAULT_COLOUR     == "typical colour"
DEFAULT_BEHAVIOUR  == "not specified"

\* DataManager.labels: per category the (abbreviation, label) pairs in file order
labels ==
    [Confidence |-> <<<<ok, "certain">>, <<cf, "uncertain">>>>,
     Phase      |-> <<<<ad, "adult">>>>,
     Colour     |-> <<<<ty, "typical colour">>>>,
     Behaviour  |-> <<<<zz, "not specified">>>>,
     Camera     |-> <<<<S_A7IV, "Sony A7IV">>>>]

\* DataManager.get_abbreviation_reverse: '' when the label is unknown
get_abbreviation_reverse(category, label) ==
    LET t == labels[category] IN
    IF \E i \in 1..Len(t) : t[i][2] = label
    THEN t[CHOOSE i \in 1..Len(t) : t[i][2] = label][1]
    ELSE <<>>

\* self.data.labels[field][abbrev]
LabelOf(category, abbrev) ==
    LET t == labels[category] IN
    t[CHOOSE i \in 1..Len(t) : t[i][1] = abbrev][2]

\* DataManager.get_active_labels
get_active_labels(category) ==
    [i \in 1..Len(labels[category]) |-> labels[category][i][2]]

\* DataManager.get_camera_abbreviation
get_camera_abbreviation(full_name) == get_abbreviation_reverse("Camera", full_name)

\* DataManager.get_camera_full_name: '' when the abbreviation is unknown
get_camera_full_name(abbrev) ==
    IF \E i \in 1..Len(labels.Camera) : labels.Camera[i][1] = abbrev
    THEN LabelOf("Camera", abbrev) ELSE ""

\* DataManager.get_user_name: '' when the code is unknown
get_user_name(code) ==
    IF \E n \in DOMAIN users_df : users_df[n] = code
    THEN CHOOSE n \in DOMAIN users_df : users_df[n] = code
    ELSE ""

\* DataManager.get_divesite_area_site: 'Area, Site' (kept as its two parts),
\* None when the site string is unknown
get_divesite_area_site(site_string) ==
    IF \E a \in DOMAIN divesites_df : divesites_df[a] = site_string
    THEN CHOOSE a \in DOMAIN divesites_df : divesites_df[a] = site_string
    ELSE NoneVal

\* latitude and longitude columns of the divesites table
BangkaLat == <<"1",".","8">>
BangkaLon == <<"1","2","5",".","1">>

\* DataManager.get_lat_long_from_site, on the parts of 'Area, Site'
get_lat_long_from_site(site_name) ==
    IF Len(site_name) = 2 /\ site_name \in DOMAIN divesites_df
    THEN <<BangkaLat, BangkaLon>> ELSE <<NoneVal, NoneVal>>

\* FilenameAssembler.extract_site_string
extract_site_string(filename) ==
    LET clean_filename ==
            IF EndsWith(filename, <<US, "G">>) \/ EndsWith(filename, <<US, "N">>)
            THEN DropLast(filename, 2) ELSE filename
        m == PATTERN_IDENTITY_FILENAME(clean_filename)
        parts == Split(clean_filename, US)
    IN  IF m # NoneVal THEN m[9]
        ELSE IF PATTERN_BASIC_FILENAME(clean_filename)
                  /\ Len(parts) >= 2 /\ IsSiteString(parts[2])
        THEN parts[2]
        ELSE NoneVal

\* FilenameAssembler.assemble_edited_filename
assemble_edited_filename(e, extension) ==
    e.family \o <<US>> \o e.genus \o <<US>> \o e.species \o <<US, "B", US>>
      \o e.confidence \o <<US>> \o e.phase \o <<US>> \o e.colour \o <<US>>
      \o e.behaviour \o <<US>> \o e.author_code \o <<US>> \o e.site_string
      \o <<US>> \o e.date \o <<US>> \o e.time \o <<US>> \o e.activity \o <<US>>
      \o e.camera \o <<US>> \o e.filename \o extension

\* FilenameAssembler.assemble_edited_basic_filename
assemble_edited_basic_filename(e, extension) ==
    e.author_code \o <<US>> \o e.site_string \o <<US>> \o e.date \o <<US>>
      \o e.time \o <<US>> \o e.activity \o <<US>> \o e.camera \o <<US>>
      \o e.filename \o extension

-----------------------------------------------------------------------------
(* The window: comboboxes, mode tabs and the Edit selection *)

AllHidden == [i \in 1..11 |-> FALSE]

\* MainWindow._reset_info
reset_info(u) ==
    [u EXCEPT !.family = DEFAULT_FAMILY, !.genus = DEFAULT_GENUS,
              !.species = DEFAULT_SPECIES, !.confidence = DEFAULT_CONFIDENCE,
              !.phase = DEFAULT_PHASE, !.colour = DEFAULT_COLOUR,
              !.behaviour = DEFAULT_BEHAVIOUR]

\* MainWindow._toggle_extended_info: what each mode shows, then _reset_info
\* in every mode but Meta
toggle_extended_info(u, mode) ==
    LET shown == CASE mode = "Basic"    -> [i \in 1..11 |-> i >= 8]
                   [] mode = "Identify" -> [i \in 1..11 |-> i <= 7]
                   [] OTHER             -> AllHidden
        v == [u EXCEPT !.mode = mode, !.shown = shown]
    IN  IF mode # "Meta" THEN reset_info(v) ELSE v

\* MainWindow._set_checkboxes with the cascades of set_family and set_genus;
\* v holds the eleven values; a field the files do not share is None, written
\* '' for the label-valued fields (both are falsy)
set_checkboxes(u, v) ==
    LET u1 == IF Truthy(v[1])
              THEN [u EXCEPT !.family = v[1], !.genus = DEFAULT_GENUS,
                             !.species = DEFAULT_SPECIES,
                             !.confidence = IF v[1] = DEFAULT_FAMILY
                                            THEN DEFAULT_CONFIDENCE ELSE @]
              ELSE u
        u2 == IF Truthy(v[2])
              THEN [u1 EXCEPT !.genus = v[2], !.species = DEFAULT_SPECIES,
                              !.confidence = IF v[2] = DEFAULT_GENUS
                                             THEN DEFAULT_CONFIDENCE ELSE @]
              ELSE u1
    IN  [u2 EXCEPT !.species    = IF Truthy(v[3]) THEN v[3] ELSE @,
                   !.confidence = IF v[4] # "" THEN v[4] ELSE @,
                   !.phase      = IF v[5] # "" THEN v[5] ELSE @,
                   !.colour     = IF v[6] # "" THEN v[6] ELSE @,
                   !.behaviour  = IF v[7] # "" THEN v[7] ELSE @,
                   !.author     = IF Truthy(v[8]) THEN get_user_name(v[8]) ELSE @,
                   !.site       = IF Truthy(v[9])
                                  THEN get_divesite_area_site(v[9]) ELSE @,
                   !.activity   = IF Truthy(v[10]) THEN v[10] ELSE @,
                   !.camera     = IF v[11] # "" THEN v[11] ELSE @]

\* the 14 fields of a Basic-format name as _edit_single_file and
\* analyze_basic_files_for_editing take them apart; None when there are
\* fewer than seven parts
BasicInfo(basename) ==
    LET clean == IF EndsWith(basename, <<US, "G">>) \/ EndsWith(basename, <<US, "N">>)
                 THEN DropLast(basename, 2) ELSE basename
        parts == Split(clean, US)
    IN  IF Len(parts) < 7 THEN NoneVal
        ELSE [i \in 1..7 |-> NoneVal] \o SubSeq(parts, 1, 6)
               \o <<Join(SubSeq(parts, 7, Len(parts)), US)>>

IsSame_LastOnly(infos, from) == [i \in 1..14 |-> i >= from /\ infos[Len(infos)][i] = infos[1][i]]

\* is_same of analyze_files_for_editing / analyze_basic_files_for_editing
IsSame(infos, from) ==
    [i \in 1..14 |-> i >= from /\ \A j \in 1..Len(infos) : infos[j][i] = infos[1][i]]

\* a variant that takes every editable field from the comboboxes
collect_edited_fields_IgnoreMask(u, fields_to_edit, info) ==
    [family      |-> u.family, genus |-> u.genus, species |-> u.species,
     confidence  |-> get_abbreviation_reverse("Confidence", u.confidence),
     phase       |-> get_abbreviation_reverse("Phase", u.phase),
     colour      |-> get_abbreviation_reverse("Colour", u.colour),
     behaviour   |-> get_abbreviation_reverse("Behaviour", u.behaviour),
     author_code |-> get_user_code(u.author),
     site_string |-> IF Len(u.site) = 2
                     THEN get_divesite_string(u.site[1], u.site[2]) ELSE info[9],
     date        |-> info[10],
     time        |-> info[11],
     activity    |-> u.activity,
     camera      |-> get_camera_abbreviation(u.camera),
     filename    |-> info[14]]

\* MainWindow._collect_edited_fields
collect_edited_fields(u, fields_to_edit, info) ==
    [family      |-> IF fields_to_edit[1] THEN u.family ELSE info[1],
     genus       |-> IF fields_to_edit[2] THEN u.genus ELSE info[2],
     species     |-> IF fields_to_edit[3] THEN u.species ELSE info[3],
     confidence  |-> IF fields_to_edit[4]
                     THEN get_abbreviation_reverse("Confidence", u.confidence)
                     ELSE info[4],
     phase       |-> IF fields_to_edit[5]
                     THEN get_abbreviation_reverse("Phase", u.phase) ELSE info[5],
     colour      |-> IF fields_to_edit[6]
                     THEN get_abbreviation_reverse("Colour", u.colour) ELSE info[6],
     behaviour   |-> IF fields_to_edit[7]
                     THEN get_abbreviation_reverse("Behaviour", u.behaviour)
                     ELSE info[7],
     author_code |-> IF fields_to_edit[8] THEN get_user_code(u.author) ELSE info[8],
     site_string |-> IF fields_to_edit[9] /\ Len(u.site) = 2
                     THEN get_divesite_string(u.site[1], u.site[2]) ELSE info[9],
     date        |-> info[10],
     time        |-> info[11],
     activity    |-> IF fields_to_edit[12] THEN u.activity ELSE info[12],
     camera      |-> IF fields_to_edit[13] THEN get_camera_abbreviation(u.camera)
                     ELSE info[13],
     filename    |-> info[14]]

\* the name _generate_previews_edit and _edit_single_file build for one file;
\* None when the file is not of the selection's format
EditedName(u, e, file_path) ==
    LET basename  == splitext(file_path)[1]
        extension == splitext(file_path)[2]
    IN  IF e.editing_format = "identity"
        THEN LET info == regex_match_identity(basename) IN
             IF info = NoneVal THEN NoneVal
             ELSE assemble_edited_filename(
                      collect_edited_fields(u, e.fields_to_edit, info), extension)
        ELSE IF e.editing_format = "basic"
        THEN LET info == BasicInfo(basename) IN
             IF info = NoneVal THEN NoneVal
             ELSE assemble_edited_basic_filename(
                      collect_edited_fields(u, e.fields_to_edit, info), extension)
        ELSE NoneVal

-----------------------------------------------------------------------------
(* Batches on the directory: Basic, Identify, Edit and Meta drops, and Undo *)

MaxBatches == 2
MaxFaults  == 1
MaxDrop    == 2

Path(name) == name \o Ext

\* the folder before the first drop: two camera originals whose names differ
\* only in '_', and two files encoded before the marker was introduced, one
\* of them geotagged; each file is known by the number of its content
InitDir ==
    LET names == <<DSC0001, DSC_0001, LegacyBasic, LegacyBasic \o <<US, "G">>>>
    IN  [p \in {Path(names[i]) : i \in 1..4} |->
            CHOOSE i \in 1..4 : Path(names[i]) = p]

InitUi ==
    toggle_extended_info(
        [mode |-> "Basic", shown |-> AllHidden,
         family |-> DEFAULT_FAMILY, genus |-> DEFAULT_GENUS,
         species |-> DEFAULT_SPECIES, confidence |-> DEFAULT_CONFIDENCE,
         phase |-> DEFAULT_PHASE, colour |-> DEFAULT_COLOUR,
         behaviour |-> DEFAULT_BEHAVIOUR,
         author |-> "Jane Diver", site |-> <<"Indonesia", "Bangka">>,
         activity |-> diving, camera |-> "Sony A7IV"], "Basic")

NoEdit  == [editing_files |-> <<>>, editing_format |-> "none",
            fields_to_edit |-> [i \in 1..14 |-> FALSE]]
\* total, progress: maximum and value of the progress bar; renamed_count:
\* the count the closing notice reports
NoBatch == [kind |-> "none", todo |-> <<>>, args |-> <<>>, total |-> 0,
            progress |-> 0, renamed_count |-> 0]
Event(kind, src, dst) == [kind |-> kind, src |-> src, dst |-> dst]

AsmIdle ==
    /\ cur = NoneVal /\ curFrom = "none" /\ lastOp = "none" /\ lastIn = NoneVal
    /\ lastInFrom = "none" /\ lastArgs = NoArgs /\ lastOut = NoneVal /\ nOps = 0

InitFS ==
    /\ fs = InitDir /\ gpsTagged = {4} /\ rename_history = <<>>
    /\ processing = FALSE /\ batch = NoBatch /\ batchNo = 0
    /\ ui = InitUi /\ edit = NoEdit /\ faults = 0
    /\ actual = <<>> /\ lastEvent = Event("none", <<>>, <<>>)
    /\ AsmIdle
    /\ exiftool_path = TRUE /\ process = 0 /\ lock = 0 /\ procs = <<>>
    /\ th = <<>> /\ nCmds = 0

\* a variant that takes requests during a batch
accepts_Always(busy) == TRUE

\* the test at the head of _dnd_files, _edit_info and _undo_last_rename:
\* 'if self._processing: return'
accepts(busy) == ~busy

\* the lists a drop can carry: distinct existing files, in any order; batchNo
\* counts the drops
DropLists(f) ==
    {l \in UNION {[1..n -> DOMAIN f] : n \in 1..MaxDrop} :
        \A i, j \in 1..Len(l) : i # j => l[i] # l[j]}

\* BatchPreviewDialog.get_files_to_rename / ExifPreviewDialog.get_files_to_process
\* after a confirmation, and the filter used when previews are switched off
get_files_to_rename(previews, skip_errors) ==
    IF skip_errors THEN SelectSeq(previews, LAMBDA m : ~m.error) ELSE previews

\* the lists the user can confirm in the preview dialog
Choices(previews) == {get_files_to_rename(previews, b) : b \in BOOLEAN}

\* calls that may raise in a step, while the fault budget lasts
FailPoints == IF faults < MaxFaults THEN {"none", "copy", "rename", "remove"}
              ELSE {"none"}

\* _show_progress after rename_history.clear() (clear = FALSE: Meta drop)
StartBatch(kind, to_rename, args, clear) ==
    /\ to_rename # <<>>
    /\ rename_history' = IF clear THEN <<>> ELSE rename_history
    /\ processing' = TRUE
    /\ batch' = [kind |-> kind, todo |-> to_rename, args |-> args,
                 total |-> Len(to_rename), progress |-> 0, renamed_count |-> 0]
    /\ batchNo' = IF kind = "Edit" THEN batchNo ELSE batchNo + 1
    /\ actual' = <<>>
    /\ lastEvent' = Event("start", <<>>, <<>>)
    /\ UNCHANGED <<fs, gpsTagged, ui, edit, faults, asmVars, sessVars>>

\* _generate_previews_basic: the dates come from one ExifTool batch read when
\* there are several files and the tool is available, and from
\* get_creation_date_str otherwise; new is the name the row shows
generate_previews_basic(f, files, a) ==
    [i \in 1..Len(files) |->
        LET name == splitext(files[i])[1]
            file_date == IF Len(files) > 1 /\ exiftool_path
                         THEN exiftool_creation_date(f, files[i])
                         ELSE get_creation_date_str(f, files[i])
            new_name == IF Truthy(file_date)
                        THEN assemble_basic_filename(name, file_date, a.author,
                                                     a.site_tuple, a.activity, a.camera)
                        ELSE NoneVal
        IN  [path |-> files[i], error |-> ~Truthy(file_date) \/ ~Truthy(new_name),
             new |-> IF Truthy(new_name) THEN new_name \o splitext(files[i])[2]
                     ELSE NoneVal]]

\* _dnd_files in Basic mode: _handle_basic_mode up to the first progress update
DropBasic ==
    /\ accepts(processing) /\ batchNo < MaxBatches
    /\ ui.mode = "Basic"
    /\ \E files \in DropLists(fs) :
        LET camera_abbrev == get_camera_abbreviation(ui.camera)
            a == [author |-> ui.author, site_tuple |-> ui.site,
                  activity |-> ui.activity, camera |-> camera_abbrev]
            previews == generate_previews_basic(fs, files, a)
        IN  /\ ui.author # "" /\ Len(ui.site) = 2 /\ Truthy(ui.activity)
            /\ ui.camera # "" /\ Truthy(camera_abbrev)
            /\ \E to_rename \in Choices(previews) :
                    StartBatch("Basic", to_rename, a, TRUE)

\* _generate_previews_identify
generate_previews_identify(files, a) ==
    [i \in 1..Len(files) |->
        LET new_name == assemble_identity_filename(splitext(files[i])[1],
                            a.family, a.genus, a.species, a.confidence, a.phase,
                            a.colour, a.behaviour)
        IN  [path |-> files[i], error |-> ~Truthy(new_name)]]

\* _dnd_files in Identify mode: _handle_identify_mode up to the first progress
\* update
DropIdentify ==
    /\ accepts(processing) /\ batchNo < MaxBatches
    /\ ui.mode = "Identify"
    /\ \E files \in DropLists(fs) :
        LET a == [family |-> ui.family, genus |-> ui.genus, species |-> ui.species,
                  confidence |-> get_abbreviation_reverse("Confidence", ui.confidence),
                  phase |-> get_abbreviation_reverse("Phase", ui.phase),
                  colour |-> get_abbreviation_reverse("Colour", ui.colour),
                  behaviour |-> get_abbreviation_reverse("Behaviour", ui.behaviour)]
            previews == generate_previews_identify(files, a)
        IN  /\ ~(ui.genus = DEFAULT_GENUS /\ ui.species # DEFAULT_SPECIES)
            /\ \E to_rename \in Choices(previews) :
                    StartBatch("Identify", to_rename, a, TRUE)

\* _generate_previews_exif
generate_previews_exif(f, files) ==
    [i \in 1..Len(files) |->
        LET name == splitext(files[i])[1]
            ext  == splitext(files[i])[2]
            site_string == extract_site_string(name)
            site_name == IF Truthy(site_string)
                         THEN get_divesite_area_site(site_string) ELSE NoneVal
            latlon == IF site_name # NoneVal THEN get_lat_long_from_site(site_name)
                      ELSE <<NoneVal, NoneVal>>
            body == construct_gps_filename(name)
            good == /\ exists(f, files[i]) /\ ext = Ext /\ Truthy(site_string)
                    /\ site_name # NoneVal /\ latlon[1] # NoneVal
                    /\ latlon[2] # NoneVal /\ Truthy(body)
        IN  [path |-> files[i], error |-> ~good,
             lat |-> IF good THEN latlon[1] ELSE NoneVal,
             new_filename |-> IF good THEN body \o ext ELSE NoneVal]]

\* _dnd_files in Meta mode: _handle_exif_mode up to the first progress update;
\* the undo log is left as it is
DropMeta ==
    /\ accepts(processing) /\ batchNo < MaxBatches
    /\ ui.mode = "Meta"
    /\ exiftool_path
    /\ \E files \in DropLists(fs) :
        \E to_process \in Choices(generate_previews_exif(fs, files)) :
            StartBatch("Meta", to_process, <<>>, FALSE)

\* _handle_edit_mode: the selection and the values its files share; loads is
\* false when the first name is of neither format or the analysis raises;
\* the comboboxes stay as they are when no field is shared, and when a
\* shared attribute has no label (the KeyError leaves the handler after the
\* selection and its flags are stored)
handle_edit_mode(u, files) ==
    LET basenames == [i \in 1..Len(files) |-> splitext(files[i])[1]]
        is_identity_format == regex_match_identity(basenames[1]) # NoneVal
        is_basic_format == regex_match_basic(basenames[1])
        infos == [i \in 1..Len(files) |->
                    IF is_identity_format THEN regex_match_identity(basenames[i])
                    ELSE BasicInfo(basenames[i])]
        is_same == IsSame(infos, IF is_identity_format THEN 1 ELSE 8)
        values == [i \in 1..14 |-> IF is_same[i] THEN infos[1][i] ELSE NoneVal]
        fmt == IF is_identity_format THEN "identity" ELSE "basic"
        ui_indices == <<1, 2, 3, 4, 5, 6, 7, 8, 9, 12, 13>>
        cats == <<"Confidence", "Phase", "Colour", "Behaviour">>
        ui_values ==
            [k \in 1..11 |->
                LET x == values[ui_indices[k]] IN
                IF k \in 4..7
                THEN IF fmt = "identity" /\ x # NoneVal
                     THEN LabelOf(cats[k - 3], x) ELSE ""
                ELSE IF k = 11
                THEN IF x # NoneVal THEN get_camera_full_name(x) ELSE ""
                ELSE x]
        loads == /\ is_identity_format \/ is_basic_format
                 /\ \A i \in 1..Len(files) : infos[i] # NoneVal
        key_error == /\ fmt = "identity"
                     /\ \E k \in 4..7 :
                           /\ values[ui_indices[k]] # NoneVal
                           /\ \A i \in 1..Len(labels[cats[k - 3]]) :
                                 labels[cats[k - 3]][i][1] # values[ui_indices[k]]
    IN  [loads |-> loads,
         edit  |-> IF loads
                   THEN [editing_files |-> files, editing_format |-> fmt,
                         fields_to_edit |-> is_same]
                   ELSE NoEdit,
         ui    |-> IF loads /\ (\E i \in 1..14 : is_same[i]) /\ ~key_error
                   THEN set_checkboxes(
                            [u EXCEPT !.shown = [k \in 1..11 |-> is_same[ui_indices[k]]]],
                            ui_values)
                   ELSE u]

\* _dnd_files in Edit mode: _handle_edit_mode, which loads the selection and
\* the values the files share into the comboboxes
DropEdit ==
    /\ accepts(processing) /\ batchNo < MaxBatches
    /\ ui.mode = "Edit"
    /\ \E files \in DropLists(fs) :
        LET h == handle_edit_mode(ui, files) IN
        /\ h.loads
        /\ edit' = h.edit
        /\ ui' = h.ui
        /\ lastEvent' = Event("load", <<>>, <<>>)
        /\ batchNo' = batchNo + 1
        /\ UNCHANGED <<fs, gpsTagged, rename_history, processing, batch,
                       faults, actual, asmVars, sessVars>>

\* _generate_previews_edit
generate_previews_edit(u, e) ==
    [i \in 1..Len(e.editing_files) |->
        [path |-> e.editing_files[i],
         error |-> ~Truthy(EditedName(u, e, e.editing_files[i]))]]

\* the Rename button of Edit mode: _edit_info up to the first progress update
EditInfo ==
    /\ accepts(processing)
    /\ ui.mode = "Edit"
    /\ Len(edit.editing_files) > 0
    /\ \E to_rename \in Choices(generate_previews_edit(ui, edit)) :
            StartBatch("Edit", to_rename, <<>>, TRUE)

\* what a file step of a Basic, Identify or Edit batch leaves behind
FileStep(path, new_filename, failAt) ==
    LET r == RenameSingle(fs, rename_history, path, new_filename, failAt) IN
    /\ failAt # "none" => r.event = "failed" /\ exists(fs, path)
    /\ fs' = r.fs
    /\ rename_history' = r.hist
    /\ actual' = IF r.moved THEN Append(actual, <<path, new_filename>>) ELSE actual
    /\ faults' = IF failAt # "none" THEN faults + 1 ELSE faults
    /\ batch' = [batch EXCEPT !.todo = Tail(@), !.progress = @ + 1,
                              !.renamed_count = IF r.ok THEN @ + 1 ELSE @]
    /\ lastEvent' = Event(r.event, path, new_filename)
    /\ UNCHANGED <<gpsTagged, processing, batchNo, ui, edit, asmVars, sessVars>>

\* one turn of the loop of _handle_basic_mode: _rename_single_file_basic and
\* the progress update
BasicStep ==
    \E failAt \in FailPoints :
        LET path == Head(batch.todo).path
            a == batch.args
            body == assemble_basic_filename(splitext(path)[1],
                        get_creation_date_str(fs, path), a.author, a.site_tuple,
                        a.activity, a.camera)
        IN  /\ processing /\ batch.kind = "Basic" /\ batch.todo # <<>>
            /\ FileStep(path, WithExt(body, splitext(path)[2]), failAt)

\* a turn of the loop of _handle_basic_mode in which get_creation_date_str
\* raises an error that neither _get_date_from_pillow, _get_date_from_exifread
\* nor _rename_single_file_basic catches (from Image.open or
\* exifread.process_file on a damaged or oversized file): the error leaves
\* the loop and the handler before _hide_progress, and the event loop goes
\* on. The previews of the batch read the dates through ExifTool
BasicStepRaises ==
    /\ processing /\ batch.kind = "Basic" /\ batch.todo # <<>>
    /\ batch.total > 1 /\ exiftool_path
    /\ faults < MaxFaults
    /\ faults' = faults + 1
    /\ batch' = [batch EXCEPT !.kind = "raised"]
    /\ lastEvent' = Event("raised", Head(batch.todo).path, <<>>)
    /\ UNCHANGED <<fs, gpsTagged, rename_history, processing, batchNo, ui, edit,
                   actual, asmVars, sessVars>>

\* one turn of the loop of _handle_identify_mode
IdentifyStep ==
    \E failAt \in FailPoints :
        LET path == Head(batch.todo).path
            a == batch.args
            body == assemble_identity_filename(splitext(path)[1], a.family,
                        a.genus, a.species, a.confidence, a.phase, a.colour,
                        a.behaviour)
        IN  /\ processing /\ batch.kind = "Identify" /\ batch.todo # <<>>
            /\ FileStep(path, WithExt(body, splitext(path)[2]), failAt)

\* one turn of the loop of _edit_info: _edit_single_file
EditStep ==
    \E failAt \in FailPoints :
        LET path == Head(batch.todo).path IN
        /\ processing /\ batch.kind = "Edit" /\ batch.todo # <<>>
        /\ FileStep(path, EditedName(ui, edit, path), failAt)

\* the marker flip of a Meta batch after a successful GPS write
GpsRename(f, path, new_filename, renameFails) ==
    IF ~Truthy(new_filename) THEN [fs |-> f, moved |-> FALSE, event |-> "gps_only"]
    ELSE IF new_filename = path
    THEN [fs |-> f, moved |-> FALSE, event |-> "gps_same"]
    ELSE IF exists(f, new_filename)
    THEN [fs |-> f, moved |-> FALSE, event |-> "skip_exists"]
    ELSE IF renameFails THEN [fs |-> f, moved |-> FALSE, event |-> "failed"]
    ELSE [fs |-> os_rename(f, path, new_filename), moved |-> TRUE,
          event |-> "renamed"]

\* sub in s
Contains(s, sub) == \E i \in 1..(Len(s) - Len(sub) + 1) : SubSeq(s, i, i + Len(sub) - 1) = sub

\* ExifToolHandler.write_gps_coordinates: the success flag, from the text
\* _execute returned ("" when the process could not be started, died before
\* the sentinel with nothing printed, or the command raised)
write_gps_coordinates(f, file_path, latitude, output) ==
    LET up == <<"A","B","C","D","E","F","G","H","I","J","K","L","M",
                "N","O","P","Q","R","S","T","U","V","W","X","Y","Z">>
        lw == <<"a","b","c","d","e","f","g","h","i","j","k","l","m",
                "n","o","p","q","r","s","t","u","v","w","x","y","z">>
        lower == [i \in 1..Len(output) |->
                    IF output[i] \in Upper
                    THEN lw[CHOOSE k \in 1..26 : up[k] = output[i]] ELSE output[i]]
        files_updated == <<"1"," ","i","m","a","g","e"," ","f","i","l","e","s"," ","u","p","d","a","t","e","d">>
        file_updated  == <<"1"," ","i","m","a","g","e"," ","f","i","l","e"," ","u","p","d","a","t","e","d">>
    IN  IF ~exiftool_path THEN FALSE
        ELSE IF ~exists(f, file_path) THEN FALSE
        ELSE IF latitude = NoneVal THEN FALSE
        ELSE IF Contains(output, files_updated) \/ Contains(output, file_updated) THEN TRUE
        ELSE IF Contains(lower, <<"e","r","r","o","r">>) \/ Contains(lower, <<"w","a","r","n","i","n","g">>) THEN FALSE
        ELSE TRUE

\* what _execute returns for the GPS write: the tool's answer after it wrote
\* the tags, its answer when it could not write, or "" when there was no
\* answer
ToolOutput(fault) ==
    IF fault = "write" THEN <<"E","r","r","o","r",":"," ","n","o","t"," ","w","r","i","t","a","b","l","e">>
    ELSE IF fault = "noanswer" THEN <<>>
    ELSE <<" "," "," "," ","1"," ","i","m","a","g","e"," ","f","i","l","e","s"," ","u","p","d","a","t","e","d">>

\* one turn of the loop of _handle_exif_mode: write_gps_coordinates, then the
\* rename that flips the marker; nothing is appended to the undo log. The
\* tool tags the file only when it answers that it updated it
MetaStep ==
    \E fault \in IF faults < MaxFaults THEN {"none", "write", "noanswer", "rename"} ELSE {"none"} :
        LET m == Head(batch.todo)
            success == write_gps_coordinates(fs, m.path, m.lat, ToolOutput(fault))
            wrote == /\ exists(fs, m.path) /\ m.lat # NoneVal
                     /\ fault \notin {"write", "noanswer"}
            r == GpsRename(fs, m.path, m.new_filename, fault = "rename")
        IN  /\ processing /\ batch.kind = "Meta" /\ batch.todo # <<>>
            /\ fault \in {"write", "noanswer"} => exists(fs, m.path) /\ m.lat # NoneVal
            /\ fault = "rename" => success /\ r.event = "failed"
            /\ gpsTagged' = IF wrote THEN gpsTagged \cup {fs[m.path]} ELSE gpsTagged
            /\ fs' = IF success THEN r.fs ELSE fs
            /\ actual' = IF success /\ r.moved
                         THEN Append(actual, <<m.path, m.new_filename>>) ELSE actual
            /\ faults' = IF fault # "none" THEN faults + 1 ELSE faults
            /\ batch' = [batch EXCEPT !.todo = Tail(@), !.progress = @ + 1,
                                      !.renamed_count =
                                          IF success /\ r.event \in {"renamed", "gps_same"}
                                          THEN @ + 1 ELSE @]
            /\ lastEvent' = Event(IF success THEN r.event ELSE "gps_failed",
                                  m.path, m.new_filename)
            /\ UNCHANGED <<rename_history, processing, batchNo, ui, edit,
                           asmVars, sessVars>>

\* MainWindow._cleanup_after_edit
cleanup_after_edit(u) == [reset_info(u) EXCEPT !.shown = AllHidden]

\* the end of a batch: _hide_progress, then _reset_info after an Identify
\* batch and _cleanup_after_edit after an Edit batch
FinishBatch ==
    /\ processing /\ batch.todo = <<>>
    /\ processing' = FALSE
    /\ batch' = NoBatch
    /\ ui' = CASE batch.kind = "Identify" -> reset_info(ui)
               [] batch.kind = "Edit"     -> cleanup_after_edit(ui)
               [] OTHER                   -> ui
    /\ edit' = IF batch.kind = "Edit" THEN [edit EXCEPT !.editing_files = <<>>]
               ELSE edit
    /\ lastEvent' = Event("finish", <<batch.renamed_count>>, <<batch.total>>)
    /\ UNCHANGED <<fs, gpsTagged, rename_history, batchNo, faults, actual,
                   asmVars, sessVars>>

\* the loop of _undo_last_rename from entry k down to entry 1, entry failAt
\* raising OSError, without the check that the old name is free
RECURSIVE UndoFrom_NoOldCheck(_, _, _, _)
UndoFrom_NoOldCheck(f, hist, k, failAt) ==
    IF k = 0 THEN f
    ELSE LET old_path == hist[k][1]
             new_path == hist[k][2]
             g == IF exists(f, new_path) /\ k # failAt
                  THEN os_rename(f, new_path, old_path) ELSE f
         IN  UndoFrom_NoOldCheck(g, hist, k - 1, failAt)

\* the loop of _undo_last_rename from entry k down to entry 1 (reversed
\* order), entry failAt raising OSError
RECURSIVE UndoFrom(_, _, _, _)
UndoFrom(f, hist, k, failAt) ==
    IF k = 0 THEN f
    ELSE LET old_path == hist[k][1]
             new_path == hist[k][2]
             g == IF exists(f, new_path) /\ ~exists(f, old_path) /\ k # failAt
                  THEN os_rename(f, new_path, old_path) ELSE f
         IN  UndoFrom(g, hist, k - 1, failAt)

\* MainWindow._undo_last_rename
Undo ==
    \E failAt \in IF faults < MaxFaults THEN 0..Len(rename_history) ELSE {0} :
        /\ accepts(processing)
        /\ failAt # 0 => /\ exists(fs, rename_history[failAt][2])
                         /\ ~exists(fs, rename_history[failAt][1])
        /\ fs' = UndoFrom(fs, rename_history, Len(rename_history), failAt)
        /\ rename_history' = <<>>
        /\ faults' = IF failAt # 0 THEN faults + 1 ELSE faults
        /\ actual' = <<>>
        /\ lastEvent' = IF rename_history = <<>>
                        THEN Event("nothing_to_undo", <<>>, <<>>)
                        ELSE Event("undo", rename_history, fs)
        /\ UNCHANGED <<gpsTagged, processing, batch, batchNo, ui, edit,
                       asmVars, sessVars>>

\* a click on a mode tab: _on_tab_click, _select_mode_tab
SelectModeTab ==
    \E mode_name \in {"Basic", "Identify", "Edit", "Meta"} :
        /\ ~processing
        /\ mode_name # ui.mode
        /\ ui' = toggle_extended_info(ui, mode_name)
        /\ lastEvent' = Event("ui", <<>>, <<>>)
        /\ UNCHANGED <<fs, gpsTagged, rename_history, processing, batch, batchNo,
                       edit, faults, actual, asmVars, sessVars>>

\* a click on a row of the species tree: _row_selected
RowSelected ==
    /\ ~processing
    /\ ui.mode \in {"Identify", "Edit"}
    /\ ui' = [reset_info(ui) EXCEPT !.family = Pomacentridae, !.genus = Amphiprion,
                                    !.species = clarkii,
                                    !.confidence = get_active_labels("Confidence")[1]]
    /\ lastEvent' = Event("ui", <<>>, <<>>)
    /\ UNCHANGED <<fs, gpsTagged, rename_history, processing, batch, batchNo,
                   edit, faults, actual, asmVars, sessVars>>

NextFS ==
    \/ DropBasic \/ DropIdentify \/ DropMeta \/ DropEdit \/ EditInfo
    \/ BasicStep \/ BasicStepRaises \/ IdentifyStep \/ EditStep \/ MetaStep
    \/ FinishBatch
    \/ Undo \/ SelectModeTab \/ RowSelected

SpecFS == InitFS /\ [][NextFS]_vars

\* a turn of the loop of a batch handler, or its end, by what it does to the
\* batch: BasicStep, IdentifyStep, EditStep and MetaStep take the head off
\* the list and advance the progress bar, FinishBatch puts the batch away
HandlerTurn ==
    /\ processing /\ batch.kind # "raised"
    /\ IF batch.todo # <<>>
       THEN \E counted \in BOOLEAN :
                batch' = [batch EXCEPT !.todo = Tail(@), !.progress = @ + 1,
                                       !.renamed_count = IF counted THEN @ + 1 ELSE @]
       ELSE batch' = NoBatch

\* the loop of a batch handler runs on the thread of the event loop from
\* _show_progress to _hide_progress: while the handler has a turn or its end
\* to run, it runs it
SpecFSFair == InitFS /\ [][NextFS]_vars /\ WF_batch(HandlerTurn)

\* a folder that holds, beside a camera original and an encoded file, a file
\* at the path the write transaction uses for its backup of the original
InitDirBackup ==
    (Path(DSC0001) :> 1) @@ (Path(LegacyBasic) :> 3)
        @@ ((Path(DSC0001) \o BackupSuffix) :> 5)

InitFSBackup ==
    /\ fs = InitDirBackup /\ gpsTagged = {} /\ rename_history = <<>>
    /\ processing = FALSE /\ batch = NoBatch /\ batchNo = 0
    /\ ui = InitUi /\ edit = NoEdit /\ faults = 0
    /\ actual = <<>> /\ lastEvent = Event("none", <<>>, <<>>)
    /\ AsmIdle
    /\ exiftool_path = TRUE /\ process = 0 /\ lock = 0 /\ procs = <<>>
    /\ th = <<>> /\ nCmds = 0

SpecFSBackup == InitFSBackup /\ [][NextFS]_vars

-----------------------------------------------------------------------------
(* Claims about the batches and Undo *)

Range(q) == {q[i] : i \in DOMAIN q}

\* C4: no rename of a Basic, Identify or Edit batch, no marker flip of a Meta
\* batch and no Undo replaces an existing file: no step makes the folder lose
\* a file, a path that exists before and after a batch step holds the same
\* file, and a step skipped because the target exists leaves the folder as
\* it was.
C4_NoOverwrite ==
    [][/\ Cardinality(DOMAIN fs') >= Cardinality(DOMAIN fs)
       /\ Range(fs) \subseteq Range(fs')
       /\ lastEvent'.kind # "undo" =>
             \A p \in DOMAIN fs \cap DOMAIN fs' : fs'[p] = fs[p]
       /\ lastEvent'.kind = "skip_exists" => fs' = fs]_vars

\* a file was skipped because an earlier file of the same batch had been
\* given the name it was to get
C4_Witness ==
    /\ lastEvent.kind = "skip_exists"
    /\ lastEvent.src # lastEvent.dst
    /\ {lastEvent.src, lastEvent.dst} \subseteq DOMAIN fs
    /\ fs[lastEvent.src] # fs[lastEvent.dst]
    /\ \E i \in 1..Len(actual) : actual[i][2] = lastEvent.dst

\* C5: every file the latest batch left under a new name has its
\* <<old, new>> pair in the undo log, also when a call of the write
\* transaction failed and also for the marker flip of a Meta batch.
C5_UndoLogComplete ==
    \A i \in 1..Len(actual) :
        actual[i][2] \in DOMAIN fs => actual[i] \in Range(rename_history)

\* an entry may be renamed back in folder d: its new name exists, its old
\* name does not
CanGoBack(d, e) == e[2] \in DOMAIN d /\ e[1] \notin DOMAIN d

\* folder d with the file at the entry's new name put back under its old name
Back(d, e) ==
    [x \in (DOMAIN d \ {e[2]}) \cup {e[1]} |-> IF x = e[1] THEN d[e[2]] ELSE d[x]]

\* the folders a walk over entries k, k-1, .. 1 can end in when it starts in
\* one of the folders D: an entry that may be renamed back is renamed back (or
\* left, when maySkip), any other entry is left
RECURSIVE LifoOutcomes(_, _, _, _)
LifoOutcomes(D, log, k, maySkip) ==
    IF k = 0 THEN D
    ELSE LifoOutcomes({Back(d, log[k]) : d \in {x \in D : CanGoBack(x, log[k])}}
                        \cup {d \in D : maySkip \/ ~CanGoBack(d, log[k])},
                      log, k - 1, maySkip)

\* C6: Undo walks the undo log from the last entry to the first and renames
\* an entry's new name back to its old name only when the new name exists
\* and the old name does not (every such entry, unless the rename raises);
\* it never replaces a file; it empties the log, so an Undo that follows an
\* Undo renames nothing.
C6_Undo ==
    [][lastEvent'.kind \in {"undo", "nothing_to_undo"} =>
        /\ fs' \in LifoOutcomes({fs}, rename_history, Len(rename_history),
                                faults' # faults)
        /\ Cardinality(DOMAIN fs') = Cardinality(DOMAIN fs)
        /\ Range(fs) \subseteq Range(fs')
        /\ rename_history' = <<>>
        /\ lastEvent.kind \in {"undo", "nothing_to_undo"} => fs' = fs]_vars

\* an Undo that renamed a file back and left another entry alone
C6_Witness ==
    /\ lastEvent.kind = "undo"
    /\ \E i, j \in 1..Len(lastEvent.src) :
          LET log == lastEvent.src
              before == lastEvent.dst
          IN  /\ CanGoBack(before, log[i])
              /\ log[i][1] \in DOMAIN fs /\ log[i][2] \notin DOMAIN fs
              /\ fs[log[i][1]] = before[log[i][2]]
              /\ ~CanGoBack(before, log[j])
              /\ log[j][1] \notin DOMAIN fs

\* C7: the undo log is empty when a batch starts, and it holds the renames of
\* the latest batch only, in the order they were made.
C7_LogIsLatestBatch ==
    /\ lastEvent.kind = "start" => rename_history = <<>>
    /\ \A i \in 1..Len(rename_history) : rename_history[i] \in Range(actual)
    /\ \A i, j \in 1..Len(rename_history) :
          i < j => \E k, l \in 1..Len(actual) :
                      k < l /\ actual[k] = rename_history[i]
                            /\ actual[l] = rename_history[j]

\* C11: in a Meta batch a file is renamed to its _G name only when the tool
\* wrote the coordinates into it: not when the process could not be started,
\* died before answering, or the command raised.
C11_MarkerOnlyAfterWrite ==
    [][processing /\ batch.kind = "Meta" /\ lastEvent'.kind = "renamed" =>
          /\ EndsWith(splitext(lastEvent'.dst)[1], <<US, "G">>)
          /\ fs'[lastEvent'.dst] \in gpsTagged']_vars

\* C17: a write transaction of which a call raises (copy to the backup,
\* rename to the candidate, deletion of the backup) leaves the folder as it
\* was: the file at its path with its content, nothing at the candidate
\* path, no backup; the file is reported as failed and the undo log is as
\* before.
C17_FailedLeavesNoTrace ==
    [][processing /\ batch.kind \in {"Basic", "Identify", "Edit"} /\ faults' # faults =>
          /\ fs' = fs
          /\ rename_history' = rename_history
          /\ lastEvent'.kind = "failed"
          /\ batch'.renamed_count = batch.renamed_count]_vars

\* C18: a batch handles the files of its list one after another in the
\* list's order, each once, and moves the progress bar after each; a skip or
\* a failure does not end the loop; the count X of the closing notice X/Y is
\* the number of files the batch put under a new name and Y the length of
\* the list.
C18_BatchLoop ==
    [][/\ processing /\ processing' /\ lastEvent'.kind # "raised" =>
             /\ batch.todo # <<>> /\ batch'.todo = Tail(batch.todo)
             /\ batch'.progress = batch.progress + 1
             /\ batch'.progress + Len(batch'.todo) = batch.total
             /\ lastEvent'.src = Head(batch.todo).path
       /\ processing /\ ~processing' =>
             /\ batch.todo = <<>> /\ batch.progress = batch.total
             /\ lastEvent'.dst = <<batch.total>>
             /\ lastEvent'.src = <<Len(actual)>>]_vars

\* C23: while the busy flag is set no drop, Edit rename or Undo acts: every
\* step taken with the flag set is the running batch's own, which handles
\* the first file left of its list (or leaves its loop with an error of that
\* file and the folder as it is), touches no path but that file's and its
\* new name, at most appends to the undo log and leaves the editing
\* selection and the batch's arguments alone; the flag is cleared only by a
\* batch that has no file left, and no batch starts before.
C23_BusyIgnores ==
    [][processing =>
         IF processing'
         THEN /\ batch.todo # <<>>
              /\ \/ batch'.todo = Tail(batch.todo) /\ batch'.kind = batch.kind
                 \/ /\ batch' = [batch EXCEPT !.kind = "raised"]
                    /\ lastEvent'.src = Head(batch.todo).path
                    /\ fs' = fs /\ rename_history' = rename_history
              /\ batch'.args = batch.args
              /\ batch'.total = batch.total /\ batchNo' = batchNo
              /\ edit' = edit
              /\ \/ rename_history' = rename_history
                 \/ /\ Len(rename_history') = Len(rename_history) + 1
                    /\ SubSeq(rename_history', 1, Len(rename_history)) = rename_history
              /\ \A p \in (DOMAIN fs \cup DOMAIN fs') \ {Head(batch.todo).path, lastEvent'.dst} :
                    p \in DOMAIN fs /\ p \in DOMAIN fs' /\ fs'[p] = fs[p]
         ELSE /\ batch.todo = <<>>
              /\ fs' = fs /\ rename_history' = rename_history]_vars

\* an Edit batch with a file renamed and logged and a file left: an Undo, a
\* drop and the Rename button would all find something to act on
C23_Witness ==
    /\ processing /\ batch.kind = "Edit" /\ batch.todo # <<>>
    /\ rename_history # <<>> /\ Len(edit.editing_files) > 0

\* the GPS marker a name ends in: "G", "N" or none
MarkerOf(name) ==
    IF EndsWith(name, <<US, "G">>) THEN "G"
    ELSE IF EndsWith(name, <<US, "N">>) THEN "N" ELSE ""

\* C24: a file renamed by an Edit batch ends in the marker it ended in
\* before, and its new name matches the pattern of the stage its old name
\* matched.
C24_EditKeepsMarker ==
    [][processing /\ batch.kind = "Edit" /\ lastEvent'.kind = "renamed" =>
         LET old == splitext(lastEvent'.src)[1]
             new == splitext(lastEvent'.dst)[1]
         IN  /\ MarkerOf(new) = MarkerOf(old)
             /\ PATTERN_IDENTITY_FILENAME(old) # NoneVal => PATTERN_IDENTITY_FILENAME(new) # NoneVal
             /\ PATTERN_BASIC_FILENAME(old) => PATTERN_BASIC_FILENAME(new)]_vars

\* C26: a click on a mode tab, which sets the fields to their defaults,
\* leaves no Edit selection behind, so that an Edit batch never gives a file
\* of an old selection the default taxonomy in place of its own.
C26_ResetDiscardsSelection ==
    [][/\ Len(edit.editing_files) > 0 /\ ui'.mode # ui.mode =>
             Len(edit'.editing_files) = 0
       /\ processing /\ batch.kind = "Edit" /\ lastEvent'.kind = "renamed"
             /\ edit.editing_format = "identity" =>
             LET old == PATTERN_IDENTITY_FILENAME(splitext(lastEvent'.src)[1])
                 new == PATTERN_IDENTITY_FILENAME(splitext(lastEvent'.dst)[1])
             IN  old[3] # DEFAULT_SPECIES => new[3] # DEFAULT_SPECIES]_vars

\* C27: the step of a batch for a file creates, replaces or deletes no file
\* at a path other than the file's own and its new name's; a file at the
\* sibling path '<source>.backup' is there with its content after the step.
C27_TransactionFrame ==
    [][processing /\ processing' =>
         LET file_path == Head(batch.todo).path IN
         /\ \A p \in (DOMAIN fs \cup DOMAIN fs') \ {file_path, lastEvent'.dst} :
               p \in DOMAIN fs /\ p \in DOMAIN fs' /\ fs'[p] = fs[p]
         /\ exists(fs, file_path \o BackupSuffix) =>
               /\ exists(fs', file_path \o BackupSuffix)
               /\ fs'[file_path \o BackupSuffix] = fs[file_path \o BackupSuffix]]_vars

\* C28: for every file of a Basic batch whose preview row was valid, the
\* step for the file ends with the file renamed, skipped because the target
\* exists, or failed on an I/O step, and the name of the step is the name
\* the preview row showed.
C28_PreviewIsRename ==
    [][processing /\ batch.kind = "Basic" /\ batch.todo # <<>> /\ batch' # batch =>
         LET row == Head(batch.todo) IN
         ~row.error =>
             /\ lastEvent'.kind \in {"renamed", "skip_exists", "failed"}
             /\ lastEvent'.dst = row.new]_vars

\* C30: every batch that sets the busy flag ends with the flag cleared and
\* the UI enabled again, whatever happens to its files: a state with the
\* flag set is followed by a state with the flag cleared.
C30_BatchEnds == processing ~> ~processing

-----------------------------------------------------------------------------
(* The analysis of an Edit selection: the two analyze functions applied to   *)
(* a list of names                                                            *)

MaxSel == 3      \* names in a selection

\* what an analysis gives: ValueError raised, or is_same and values
Raised == [error |-> TRUE, is_same |-> <<>>, values |-> <<>>]

\* FilenameAssembler.analyze_files_for_editing
analyze_files_for_editing(filenames) ==
    LET parsed_info == [j \in 1..Len(filenames) |-> regex_match_identity(splitext(filenames[j])[1])]
        is_same == IsSame(parsed_info, 1)
    IN  IF filenames = <<>> THEN Raised
        ELSE IF \E j \in 1..Len(filenames) : parsed_info[j] = NoneVal THEN Raised
        ELSE [error |-> FALSE, is_same |-> is_same,
              values |-> [i \in 1..14 |-> IF is_same[i] THEN parsed_info[1][i] ELSE NoneVal]]

\* FilenameAssembler.analyze_basic_files_for_editing
analyze_basic_files_for_editing(filenames) ==
    LET parsed_info == [j \in 1..Len(filenames) |-> BasicInfo(splitext(filenames[j])[1])]
        is_same == IsSame(parsed_info, 8)
    IN  IF filenames = <<>> THEN Raised
        ELSE IF \E j \in 1..Len(filenames) : parsed_info[j] = NoneVal THEN Raised
        ELSE [error |-> FALSE, is_same |-> is_same,
              values |-> [i \in 1..14 |-> IF is_same[i] THEN parsed_info[1][i] ELSE NoneVal]]

\* names a selection can hold: Identified names that differ in the species
\* or in the case of the colour, Basic names with and without marker, and a
\* camera original
SelectionNames ==
    LET id(species, colour) == assemble_identity_filename(LegacyBasic, Pomacentridae, Amphiprion, species, ok, ad, colour, zz)
    IN  {id(clarkii, ty), id(ocellaris, ty), id(clarkii, <<"T", "y">>),
         LegacyBasic,
         assemble_basic_filename(DSC_0001, Date1, "Jane Diver", <<"Indonesia", "Bangka">>, diving, S_A7IV),
         DSC0001}

InitDiff ==
    /\ \E n \in 1..MaxSel : cur \in [1..n -> SelectionNames]
    /\ curFrom = "selection"
    /\ lastOp = "none" /\ lastIn = NoneVal /\ lastInFrom = "none"
    /\ lastArgs = NoArgs /\ lastOut = NoneVal /\ nOps = 0
    /\ FsIdle /\ SessIdle

\* _handle_edit_mode on a selection whose first name is Identified
AnalyzeIdentity ==
    /\ nOps = 0
    /\ lastOp' = "analyze_files_for_editing"
    /\ lastOut' = analyze_files_for_editing(cur)
    /\ lastIn' = cur /\ nOps' = 1
    /\ UNCHANGED <<cur, curFrom, lastInFrom, lastArgs, fsVars, sessVars>>

\* _handle_edit_mode on a selection whose first name is Basic
AnalyzeBasic ==
    /\ nOps = 0
    /\ lastOp' = "analyze_basic_files_for_editing"
    /\ lastOut' = analyze_basic_files_for_editing(cur)
    /\ lastIn' = cur /\ nOps' = 1
    /\ UNCHANGED <<cur, curFrom, lastInFrom, lastArgs, fsVars, sessVars>>

\* the selection dropped in Edit mode, one choice in the Confidence combobox
\* when it is enabled, and the Rename button: _handle_edit_mode, then the
\* names _edit_single_file builds for the files in the loop of _edit_info;
\* actual holds each path with its new name, lastEvent whether the user
\* changed a combobox
EditSelection ==
    /\ edit = <<>>
    /\ \E confidence \in {get_active_labels("Confidence")[k] : k \in 1..Len(labels.Confidence)} :
       \E files \in {[j \in 1..Len(cur) |-> Path(cur[j])]} :
       \E h \in {handle_edit_mode(toggle_extended_info(InitUi, "Edit"), files)} :
       \E u \in {IF h.ui.shown[4] THEN [h.ui EXCEPT !.confidence = confidence]
                 ELSE h.ui} :
            /\ h.loads
            /\ edit' = h.edit
            /\ ui' = u
            /\ lastEvent' = IF u = h.ui THEN "unchanged" ELSE "changed"
            /\ actual' = [j \in 1..Len(files) |->
                             <<files[j], EditedName(u, h.edit, files[j])>>]
    /\ UNCHANGED <<fs, gpsTagged, rename_history, processing, batch, batchNo,
                   faults, asmVars, sessVars>>

NextDiff == AnalyzeIdentity \/ AnalyzeBasic \/ EditSelection

SpecDiff == InitDiff /\ [][NextDiff]_vars

-----------------------------------------------------------------------------
(* Claims about the analysis *)

\* the value of field i in the record of a name of the analysed stage: the
\* groups of the Identified pattern, or for a Basic name (marker taken off)
\* its '_'-separated parts, the original name being all that follows the
\* camera
FieldOf(name, i) ==
    IF lastOp = "analyze_files_for_editing" THEN PATTERN_IDENTITY_FILENAME(name)[i]
    ELSE LET clean == IF EndsWith(name, <<US, "G">>) \/ EndsWith(name, <<US, "N">>)
                      THEN DropLast(name, 2) ELSE name
             parts == Split(clean, US)
         IN  IF i < 14 THEN parts[i - 7] ELSE Join(SubSeq(parts, 7, Len(parts)), US)

\* the field positions of the analysed stage
FieldsOfStage == IF lastOp = "analyze_files_for_editing" THEN 1..14 ELSE 8..14

\* C12: when an analysis gives a result, for every field position of the
\* stage the agreement flag is true exactly when all names of the selection
\* carry the same value there (case-sensitive), and the representative value
\* is that value when the flag is true and None otherwise.
C12_DiffCorrect ==
    nOps = 1 /\ ~lastOut.error =>
        \A i \in FieldsOfStage :
            /\ lastOut.is_same[i] <=>
                  \A j, k \in 1..Len(cur) : FieldOf(cur[j], i) = FieldOf(cur[k], i)
            /\ lastOut.values[i] =
                  IF lastOut.is_same[i] THEN FieldOf(cur[1], i) ELSE NoneVal

\* an analysis of three names of one stage of which only the last differs
\* from the first in some field, while another field is shared by all
C12_Witness ==
    /\ nOps = 1 /\ ~lastOut.error /\ Len(cur) = 3
    /\ \E i, k \in FieldsOfStage :
          /\ ~lastOut.is_same[i] /\ lastOut.is_same[k]
          /\ FieldOf(cur[1], i) = FieldOf(cur[2], i)
          /\ FieldOf(cur[1], i) # FieldOf(cur[3], i)

\* the stage of a name
StageOf(name) ==
    IF PATTERN_IDENTITY_FILENAME(name) # NoneVal THEN "Identified"
    ELSE IF PATTERN_BASIC_FILENAME(name) THEN "Basic" ELSE "Unclassified"

\* C13: the analysis of the stage of the selection's first name raises, and
\* gives no agreement vector, when some name of the selection is not of that
\* stage; for the Identified analysis and for the Basic analysis.
C13_AllOrNothing ==
    /\ lastOp = "analyze_files_for_editing" /\ StageOf(cur[1]) = "Identified"
         /\ (\E j \in 1..Len(cur) : StageOf(cur[j]) # "Identified")
       => lastOut = Raised
    /\ lastOp = "analyze_basic_files_for_editing" /\ StageOf(cur[1]) = "Basic"
         /\ (\E j \in 1..Len(cur) : StageOf(cur[j]) # "Basic")
       => lastOut = Raised

\* the 14 field values of a name of an Edit selection's format, read with
\* the grammar of that format: the groups of the Identified pattern, or the
\* '_'-separated parts of a Basic name with its marker taken off; None when
\* the name cannot be read
FieldsOfName(fmt, name) ==
    IF fmt = "identity" THEN PATTERN_IDENTITY_FILENAME(name)
    ELSE LET clean == IF EndsWith(name, <<US, "G">>) \/ EndsWith(name, <<US, "N">>)
                      THEN DropLast(name, 2) ELSE name
             parts == Split(clean, US)
         IN  IF Len(parts) < 7 THEN NoneVal
             ELSE [i \in 1..14 |->
                      IF i < 8 THEN NoneVal
                      ELSE IF i < 14 THEN parts[i - 7]
                      ELSE Join(SubSeq(parts, 7, Len(parts)), US)]

\* the value the comboboxes hold for field i at the Rename click, as the
\* code a name carries
EditedValue(i) ==
    CASE i = 1 -> ui.family
      [] i = 2 -> ui.genus
      [] i = 3 -> ui.species
      [] i = 4 -> get_abbreviation_reverse("Confidence", ui.confidence)
      [] i = 5 -> get_abbreviation_reverse("Phase", ui.phase)
      [] i = 6 -> get_abbreviation_reverse("Colour", ui.colour)
      [] i = 7 -> get_abbreviation_reverse("Behaviour", ui.behaviour)
      [] i = 8 -> get_user_code(ui.author)
      [] i = 9 -> IF Len(ui.site) = 2 THEN get_divesite_string(ui.site[1], ui.site[2])
                  ELSE NoneVal
      [] i = 12 -> ui.activity
      [] i = 13 -> get_camera_abbreviation(ui.camera)
      [] OTHER -> NoneVal

\* C19: in an Edit rename every new name reads, at every field position of
\* the selection's format, the value of the comboboxes when the position is
\* editable and its agreement flag is set, and the file's own old value
\* otherwise; date, time and original name are the file's own.
C19_EditFrame ==
    edit # <<>> =>
        \A j \in 1..Len(actual) :
            LET old == FieldsOfName(edit.editing_format, splitext(actual[j][1])[1])
                new == FieldsOfName(edit.editing_format, splitext(actual[j][2])[1])
            IN  /\ new # NoneVal
                /\ \A i \in (IF edit.editing_format = "identity" THEN 1..14 ELSE 8..14) :
                      new[i] = IF edit.fields_to_edit[i] /\ i \notin {10, 11, 14}
                               THEN EditedValue(i) ELSE old[i]

\* two Identified names that differ only in the species, edited at once to
\* another confidence: both carry the new confidence and each its own species
C19_Witness ==
    /\ edit # <<>> /\ edit.editing_format = "identity" /\ Len(actual) = 2
    /\ LET old == [j \in 1..2 |-> FieldsOfName("identity", splitext(actual[j][1])[1])]
           new == [j \in 1..2 |-> FieldsOfName("identity", splitext(actual[j][2])[1])]
       IN  /\ old[1][3] = clarkii /\ old[2][3] = ocellaris
           /\ \A i \in 1..14 : i # 3 => old[1][i] = old[2][i]
           /\ old[1][4] = ok /\ new[1][4] = cf /\ new[2][4] = cf
           /\ new[1][3] = clarkii /\ new[2][3] = ocellaris

\* C25: an Edit rename in which the user changed no combobox gives every
\* file a name that reads, at every field position of the selection's
\* format, the value the old name read there.
C25_NoChangeEdit ==
    edit # <<>> /\ lastEvent = "unchanged" =>
        \A j \in 1..Len(actual) :
            LET old == FieldsOfName(edit.editing_format, splitext(actual[j][1])[1])
                new == FieldsOfName(edit.editing_format, splitext(actual[j][2])[1])
            IN  new = old

-----------------------------------------------------------------------------
(* Claims about the stages of a name *)

\* C14: no name matches the Basic pattern and the Identified pattern: each of
\* the names of an assembler run (the name given, the name made of it, the
\* file's current name) is of exactly one stage.
C14_StagesExclusive ==
    \A name \in {cur, lastIn, lastOut} :
        ~(PATTERN_BASIC_FILENAME(name) /\ PATTERN_IDENTITY_FILENAME(name) # NoneVal)

\* an Identified name carrying the _G marker, made from a Basic name: it
\* holds a whole Basic name after its taxonomy and attribute fields
C14_Witness ==
    /\ lastOp = "gps" /\ lastInFrom = "identity"
    /\ StageOf(cur) = "Identified" /\ EndsWith(cur, <<US, "G">>)
    /\ \E i \in 1..Len(cur) : StageOf(SubSeq(cur, i, Len(cur))) = "Basic"

\* C15: assemble_identity_filename returns None for a name that matches
\* neither pattern and for a name that is Identified already, whatever the
\* taxonomy and attribute values.
C15_StageOrdering ==
    lastOp = "identity" /\ StageOf(lastIn) \in {"Unclassified", "Identified"} =>
        lastOut = NoneVal

\* an Identified name was given to assemble_identity_filename with all values
\* present
C15_Witness ==
    /\ lastOp = "identity" /\ StageOf(lastIn) = "Identified"
    /\ Truthy(lastArgs.behaviour) /\ lastOut = NoneVal

\* C16: whenever _construct_gps_filename gives a name, the name ends in _G
\* and _construct_gps_filename gives it back unchanged; a name that ends in
\* _G already is given back unchanged.
C16_FlipIdempotent ==
    lastOp = "gps" =>
        /\ lastOut # NoneVal =>
              /\ EndsWith(lastOut, <<US, "G">>)
              /\ construct_gps_filename(lastOut) = lastOut
        /\ EndsWith(lastIn, <<US, "G">>) => lastOut = lastIn

\* a name made by a flip was flipped again
C16_Witness ==
    /\ lastOp = "gps" /\ lastInFrom = "gps"
    /\ EndsWith(lastIn, <<US, "G">>) /\ lastOut = lastIn

-----------------------------------------------------------------------------
(* The ExifTool session: ExifToolHandler and its persistent process *)

MaxThreads == 2      \* threads calling the session
MaxCmds    == 3      \* commands issued in a run
MaxProcs   == 2      \* processes started in a run
MaxLines   == 2      \* output lines of one response

Threads == 1..MaxThreads

EXIFTOOL_READY_SENTINEL == <<"{", "r", "e", "a", "d", "y", "}">>

\* what the tool prints for a request before the sentinel
OutputText == <<"1", "3", ".", "4", "8">>

\* a line of the process's output. The stream carries the text only; of (the
\* command the process was answering) and n (the line's position in that
\* answer; for the sentinel, the number of lines before it) are ghosts
Line(c, k, text) == [of |-> c, n |-> k, text |-> text]

\* subprocess.Popen([...,"-stay_open","True","-@","-"]): a running process
\* with empty pipes; n counts the lines printed for the request being answered
Popen == [alive |-> TRUE, stdin |-> <<>>, n |-> 0, stdout |-> <<>>]

\* the process exits: its input pipe goes, what it printed stays readable
Exited(pr) == [pr EXCEPT !.alive = FALSE, !.stdin = <<>>, !.n = 0]

\* self._process is not None and self._process.poll() is None
Live(h, ps) == h # 0 /\ ps[h].alive

NeedsStart_OnlyNone(h, ps) == h = 0

\* self._process is None or self._process.poll() is not None
NeedsStart(h, ps) == h = 0 \/ ~ps[h].alive

acquire_NoExclusion(l) == TRUE

\* with self._lock: entered when no thread holds the lock
acquire(l) == l = 0

\* "\n".join(output_lines)
RECURSIVE join(_)
join(lines) == IF lines = <<>> THEN <<>> ELSE IF Len(lines) = 1 THEN lines[1].text ELSE lines[1].text \o <<"\n">> \o join(Tail(lines))

\* a thread outside _execute; liveAtCall and procsAtCall are ghosts recording
\* the session at the moment the command was issued, proc the process the
\* request was written to, last the sentinel line that ended the read
Idle ==
    [pc |-> "idle", cmd |-> 0, out |-> <<>>, ret |-> <<>>, endedBy |-> "none",
     last |-> Line(0, 0, <<>>), proc |-> 0, liveAtCall |-> FALSE,
     procsAtCall |-> 0]

\* _execute returns: the lock is released by the caller of Returned
Returned(r, result, how) == [r EXCEPT !.pc = "done", !.ret = result, !.endedBy = how]

InitSess ==
    /\ AsmIdle /\ FsIdle
    /\ exiftool_path \in BOOLEAN
    /\ process = 0 /\ lock = 0 /\ procs = <<>>
    /\ th = [t \in Threads |-> Idle]
    /\ nCmds = 0

\* a thread calls _execute (get_version, write_gps_coordinates,
\* read_gps_coordinates, _read_creation_dates_batch)
Call(t) ==
    /\ th[t].pc \in {"idle", "done"}
    /\ nCmds < MaxCmds
    /\ nCmds' = nCmds + 1
    /\ th' = [th EXCEPT ![t] = [Idle EXCEPT !.pc = "ensure", !.cmd = nCmds + 1,
                                            !.liveAtCall = Live(process, procs),
                                            !.procsAtCall = Len(procs)]]
    /\ UNCHANGED <<exiftool_path, process, lock, procs, asmVars, fsVars>>

\* _ensure_process with _start_process, under the lock; when it returns
\* False _execute returns ""
EnsureProcess(t) ==
    /\ th[t].pc = "ensure"
    /\ acquire(lock)
    /\ IF ~NeedsStart(process, procs) \/ Live(process, procs)
       THEN /\ th' = [th EXCEPT ![t].pc = "enter"]
            /\ UNCHANGED <<process, procs>>
       ELSE IF ~exiftool_path
       THEN /\ th' = [th EXCEPT ![t] = Returned(@, <<>>, "nostart")]
            /\ UNCHANGED <<process, procs>>
       ELSE \/ /\ Len(procs) < MaxProcs
               /\ procs' = Append(procs, Popen)
               /\ process' = Len(procs) + 1
               /\ th' = [th EXCEPT ![t].pc = "enter"]
            \/ /\ process' = 0
               /\ th' = [th EXCEPT ![t] = Returned(@, <<>>, "nostart")]
               /\ UNCHANGED procs
    /\ UNCHANGED <<exiftool_path, lock, nCmds, asmVars, fsVars>>

\* _execute: with self._lock
EnterExecute(t) ==
    /\ th[t].pc = "enter"
    /\ acquire(lock)
    /\ lock' = t
    /\ th' = [th EXCEPT ![t].pc = "write"]
    /\ UNCHANGED <<exiftool_path, process, procs, nCmds, asmVars, fsVars>>

\* _execute: the arguments, "-execute" and the flush. A write raises with no
\* handle (AttributeError) or an exited process (BrokenPipeError), and can
\* raise with a running process (UnicodeEncodeError: the pipe is a text
\* stream in the locale's encoding and an argument is a file path); the
\* except block drops the handle and returns ""
WriteRequest(t) ==
    /\ th[t].pc = "write"
    /\ \E raises \in IF Live(process, procs) THEN BOOLEAN ELSE {TRUE} :
        IF ~raises
        THEN /\ procs' = [procs EXCEPT ![process].stdin = Append(@, th[t].cmd)]
             /\ th' = [th EXCEPT ![t].pc = "read", ![t].proc = process]
             /\ UNCHANGED <<process, lock>>
        ELSE /\ process' = 0
             /\ lock' = 0
             /\ th' = [th EXCEPT ![t] = Returned(@, <<>>, "error")]
             /\ UNCHANGED procs
    /\ UNCHANGED <<exiftool_path, nCmds, asmVars, fsVars>>

\* _execute: one readline() of the loop. The call blocks while the process
\* runs and has printed nothing more
ReadLine(t) ==
    /\ th[t].pc = "read"
    /\ IF process = 0
       THEN /\ process' = 0
            /\ lock' = 0
            /\ th' = [th EXCEPT ![t] = Returned(@, <<>>, "error")]
            /\ UNCHANGED procs
       ELSE IF procs[process].stdout # <<>>
       THEN LET line == Head(procs[process].stdout)
            IN  /\ procs' = [procs EXCEPT ![process].stdout = Tail(@)]
                /\ IF line.text = EXIFTOOL_READY_SENTINEL
                   THEN /\ th' = [th EXCEPT ![t] = [Returned(@, join(@.out), "ready") EXCEPT !.last = line]]
                        /\ lock' = 0
                   ELSE /\ th' = [th EXCEPT ![t].out = Append(@, line)]
                        /\ UNCHANGED lock
                /\ UNCHANGED process
       ELSE /\ ~procs[process].alive
            /\ process' = 0
            /\ lock' = 0
            /\ th' = [th EXCEPT ![t] = Returned(@, join(@.out), "eof")]
            /\ UNCHANGED procs
    /\ UNCHANGED <<exiftool_path, nCmds, asmVars, fsVars>>

\* the process prints a line of its answer to the oldest request it was sent
ProcOutput(p) ==
    /\ p \in DOMAIN procs
    /\ procs[p].alive
    /\ procs[p].stdin # <<>>
    /\ procs[p].n < MaxLines
    /\ procs' = [procs EXCEPT ![p].n = @ + 1,
                              ![p].stdout = Append(@, Line(Head(procs[p].stdin), procs[p].n + 1, OutputText))]
    /\ UNCHANGED <<exiftool_path, process, lock, th, nCmds, asmVars, fsVars>>

\* the process ends its answer with the sentinel
ProcReady(p) ==
    /\ p \in DOMAIN procs
    /\ procs[p].alive
    /\ procs[p].stdin # <<>>
    /\ procs' = [procs EXCEPT ![p].n = 0, ![p].stdin = Tail(@),
                              ![p].stdout = Append(@, Line(Head(procs[p].stdin), procs[p].n, EXIFTOOL_READY_SENTINEL))]
    /\ UNCHANGED <<exiftool_path, process, lock, th, nCmds, asmVars, fsVars>>

\* the process dies (crash, kill from outside)
ProcDie(p) ==
    /\ p \in DOMAIN procs
    /\ procs[p].alive
    /\ procs' = [procs EXCEPT ![p] = Exited(@)]
    /\ UNCHANGED <<exiftool_path, process, lock, th, nCmds, asmVars, fsVars>>

\* shutdown (atexit, refresh_availability): under the lock a running process
\* is told to stop and waited for, or killed; the handle is dropped. A handle
\* to a process that has exited already is kept
Shutdown ==
    /\ acquire(lock)
    /\ IF Live(process, procs)
       THEN /\ procs' = [procs EXCEPT ![process] = Exited(@)]
            /\ process' = 0
       ELSE UNCHANGED <<process, procs>>
    /\ UNCHANGED <<exiftool_path, lock, th, nCmds, asmVars, fsVars>>

NextSess ==
    \/ \E t \in Threads : Call(t)
    \/ \E t \in Threads : EnsureProcess(t)
    \/ \E t \in Threads : EnterExecute(t)
    \/ \E t \in Threads : WriteRequest(t)
    \/ \E t \in Threads : ReadLine(t)
    \/ \E p \in 1..MaxProcs : ProcOutput(p)
    \/ \E p \in 1..MaxProcs : ProcReady(p)
    \/ \E p \in 1..MaxProcs : ProcDie(p)
    \/ Shutdown

SpecSess == InitSess /\ [][NextSess]_vars

-----------------------------------------------------------------------------
(* Claims about the session *)

\* the threads whose request is written and not yet answered
InFlight == {t \in Threads : th[t].pc = "read"}

C9_EofReturnsEmpty ==
    \A t \in Threads :
        th[t].endedBy = "eof" => th[t].ret = <<>> /\ process # th[t].proc

\* C10: no process is started before the first command, and only for a
\* command with the tool available; a command goes on to its write only with
\* a running process in the handle and writes its request only to a running
\* process, and when the session had no running process as the command was
\* issued that process was started after the command was issued.
C10_LazyStart ==
    /\ [](nCmds = 0 => procs = <<>>)
    /\ [][\A t \in Threads :
            /\ th[t].pc = "ensure" /\ th'[t].pc = "enter" =>
                  /\ Live(process', procs')
                  /\ ~th[t].liveAtCall => process' > th[t].procsAtCall
            /\ th[t].pc = "write" /\ th'[t].pc = "read" =>
                  /\ Live(process, procs) /\ th'[t].proc = process
                  /\ ~th[t].liveAtCall => process > th[t].procsAtCall]_vars
    /\ [][Len(procs') > Len(procs) =>
            /\ exiftool_path
            /\ ~Live(process, procs)
            /\ \E t \in Threads : th[t].pc = "ensure" /\ th'[t].pc = "enter"]_vars

\* a thread found the stream of a process closed, and the request of a
\* command issued with no running process is with a process started later
C10_Witness ==
    \E t1, t2 \in Threads :
        /\ th[t1].endedBy = "eof"
        /\ th[t2].pc = "read" /\ ~th[t2].liveAtCall
        /\ th[t2].procsAtCall >= th[t1].proc
        /\ th[t2].proc > th[t1].proc

\* C20: when shutdown returns no process the session started is running and
\* the session holds no running process, so that the next command starts
\* one: a shutdown that stops the process in the handle leaves no process
\* running and the handle empty, and in a state in which shutdown finds
\* nothing to stop (it returns at once) no process is running.
C20_ShutdownStopsAll ==
    /\ [][Live(process, procs) /\ th' = th /\ process' # process =>
             /\ process' = 0
             /\ \A p \in DOMAIN procs' : ~procs'[p].alive]_vars
    /\ [](lock = 0 /\ ~Live(process, procs) =>
             /\ NeedsStart(process, procs)
             /\ \A p \in DOMAIN procs : ~procs[p].alive)

\* C29: at most one process started by the session is running at any
\* time, and when the handle leaves a process (it is dropped, or a new
\* process is started) that process has terminated.
C29_OneProcessAlive ==
    /\ [](Cardinality({p \in DOMAIN procs : procs[p].alive}) <= 1)
    /\ [][process # 0 /\ process' # process => ~procs'[process].alive]_vars

-----------------------------------------------------------------------------
(* Reading the creation dates of a file list with ExifTool *)

MaxFiles == 81       \* files in a list

\* ExifToolHandler.BATCH_SIZE
BATCH_SIZE == 40

\* a variant whose chunks hold one path more
Chunk_Inclusive(file_paths, i) == SubSeq(file_paths, i + 1, Min(i + BATCH_SIZE + 1, Len(file_paths)))

\* file_paths[i:i + self.BATCH_SIZE]
Chunk(file_paths, i) == SubSeq(file_paths, i + 1, Min(i + BATCH_SIZE, Len(file_paths)))

\* ExifToolHandler._read_creation_dates_batch on a reply that gives every
\* file of the command the timestamp date_str; answered = FALSE: no output
read_creation_dates_batch(file_paths, date_str, answered) ==
    LET formatted == format_exif_datetime(date_str) IN
    IF answered /\ Truthy(date_str) /\ date_str # Unset /\ Truthy(formatted)
    THEN [f \in {file_paths[k] : k \in 1..Len(file_paths)} |-> formatted]
    ELSE <<>>

\* results.update(batch_results)
update(results, more) ==
    [f \in DOMAIN results \cup DOMAIN more |->
        IF f \in DOMAIN more THEN more[f] ELSE results[f]]

\* a list of files whose clock wrote the timestamp lastIn, before
\* batch_read_creation_dates is called; lastArgs holds the commands sent and
\* the calls of the progress callback, nOps the offset i of the loop
InitDates ==
    /\ \E n \in 0..MaxFiles : cur = [k \in 1..n |-> k]
    /\ curFrom = "files"
    /\ lastIn \in Stamps
    /\ lastOp = "none" /\ lastInFrom = "none"
    /\ lastArgs = [commands |-> <<>>, progress |-> <<>>]
    /\ lastOut = <<>> /\ nOps = 0
    /\ FsIdle
    /\ exiftool_path \in BOOLEAN
    /\ process = 0 /\ lock = 0 /\ procs = <<>> /\ th = <<>> /\ nCmds = 0

\* batch_read_creation_dates up to the loop: {} without the tool or files
batch_read_creation_dates ==
    /\ lastOp = "none"
    /\ lastOp' = IF ~exiftool_path \/ cur = <<>> THEN "returned" ELSE "loop"
    /\ UNCHANGED <<cur, curFrom, lastIn, lastInFrom, lastArgs, lastOut, nOps,
                   fsVars, sessVars>>

\* one turn of the loop: the command for the chunk, the merge of its
\* results and the progress callback
ReadChunk ==
    /\ lastOp = "loop"
    /\ \E answered \in BOOLEAN :
        LET chunk == Chunk(cur, nOps)
            total == Len(cur)
            processed == Min(nOps + BATCH_SIZE, total)
        IN  /\ lastArgs' = [commands |-> Append(lastArgs.commands, chunk),
                            progress |-> Append(lastArgs.progress, <<processed, total>>)]
            /\ lastOut' = update(lastOut, read_creation_dates_batch(chunk, lastIn, answered))
            /\ nOps' = nOps + BATCH_SIZE
            /\ lastOp' = IF nOps + BATCH_SIZE < total THEN "loop" ELSE "returned"
    /\ UNCHANGED <<cur, curFrom, lastIn, lastInFrom, fsVars, sessVars>>

NextDates == batch_read_creation_dates \/ ReadChunk

SpecDates == InitDates /\ [][NextDates]_vars

-----------------------------------------------------------------------------
(* Claims about the reading of the creation dates *)

RECURSIVE Concat(_)
Concat(lists) == IF lists = <<>> THEN <<>> ELSE Head(lists) \o Concat(Tail(lists))

\* C21: with the tool available, the commands sent so far hold consecutive
\* chunks of the list, in list order and without gap or overlap, each of 1
\* to 40 paths and each but the last of 40; there is one progress call per
\* command, the k-th being (min(40k, n), n); and when the function has
\* returned there are ceil(n/40) commands, every path is in exactly one of
\* them, and the last progress call is (n, n).
C21_Chunking ==
    LET n == Len(cur)
        commands == lastArgs.commands
        progress == lastArgs.progress
    IN  exiftool_path =>
          /\ Concat(commands) = SubSeq(cur, 1, Len(Concat(commands)))
          /\ \A k \in 1..Len(commands) :
                /\ Len(commands[k]) \in 1..BATCH_SIZE
                /\ k < Len(commands) => Len(commands[k]) = BATCH_SIZE
          /\ Len(progress) = Len(commands)
          /\ \A k \in 1..Len(progress) : progress[k] = <<Min(BATCH_SIZE * k, n), n>>
          /\ lastOp = "returned" =>
                /\ Len(commands) = (n + BATCH_SIZE - 1) \div BATCH_SIZE
                /\ Concat(commands) = cur
                /\ n > 0 => progress[Len(progress)] = <<n, n>>

\* a list of 81 paths read in three commands, the last with one path
C21_Witness ==
    /\ exiftool_path /\ lastOp = "returned" /\ Len(cur) = 2 * BATCH_SIZE + 1
    /\ Len(lastArgs.commands) = 3 /\ Len(lastArgs.commands[3]) = 1

\* the shapes \d{4}-\d{2}-\d{2} and \d{2}-\d{2}-\d{2} joined by '_'
IsDateTime(s) ==
    /\ Len(s) = 19 /\ IsDate(SubSeq(s, 1, 10)) /\ s[11] = US
    /\ IsTime(SubSeq(s, 12, 19))

\* C22: every date the reading gives for a file, made by
\* _format_exif_datetime from a timestamp 'YYYY:MM:DD HH:MM:SS' with or
\* without a timezone suffix '+HH:MM' or '-HH:MM', is that timestamp as
\* 'YYYY-MM-DD_HH-MM-SS' without the suffix.
C22_FormatDatetime ==
    \A f \in DOMAIN lastOut :
        /\ IsDateTime(lastOut[f])
        /\ lastOut[f] = replace(replace(SubSeq(lastIn, 1, 19), ":", "-", -1), " ", "_", -1)

====
